---- MODULE Spec2Model ----
(***************************************************************************)
(* Model of the SSH remote-command server of src/src/index.ts (the class   *)
(* SSHMCPServer, lines 1577-4220): policy lists read from the environment, *)
(* the host registry built from ~/.ssh/config and its includes, and the    *)
(* request handlers that validate a host, evaluate the command policy and  *)
(* spawn an external process.                                              *)
(*                                                                         *)
(* Text is modelled by TLA+ strings; the character at position i of s is   *)
(* the one-character string SubSeq(s, i, i).                               *)
(***************************************************************************)
EXTENDS Integers, Sequences, FiniteSets, TLC

VARIABLES
    phase,          \* "start" | "loading" | "serving": position of run()
    env,            \* the four policy inputs of process.env
    fs,             \* the files the loader can read: path -> text
    serverFilter,   \* this.serverFilter
    commandFilter,  \* this.commandFilter
    sshHosts,       \* this.sshHosts: alias -> host record
    stack,          \* the active parseSSHConfig / handleInclude calls, innermost last
    declared,       \* history: the Host lines read so far, <<file, line>> in reading order
    req,            \* the request being served, or NoReq
    child,          \* the external process of that request
    outcome,        \* what the caller received for it
    probe,          \* inputs of a pure-function check
    out             \* outputs of a pure-function check

vars == <<phase, env, fs, serverFilter, commandFilter, sshHosts,
          stack, declared, req, child, outcome, probe, out>>

----------------------------------------------------------------------------
(* Strings *)

Char(s, i) == SubSeq(s, i, i)

Range(f) == {f[i] : i \in DOMAIN f}

UpperLetters == "ABCDEFGHIJKLMNOPQRSTUVWXYZ"
LowerLetters == "abcdefghijklmnopqrstuvwxyz"

\* String.prototype.toLowerCase on one character (ASCII letters).
toLowerCaseChar(c) ==
    IF \E i \in 1..Len(UpperLetters) : Char(UpperLetters, i) = c
    THEN Char(LowerLetters, CHOOSE i \in 1..Len(UpperLetters) : Char(UpperLetters, i) = c)
    ELSE c

\* The texts F(lo), ..., F(hi) one after the other.
RECURSIVE ConcatRange(_, _, _)
ConcatRange(F(_), lo, hi) ==
    IF lo > hi THEN ""
    ELSE IF lo = hi THEN F(lo)
    ELSE LET mid == (lo + hi) \div 2
         IN  ConcatRange(F, lo, mid) \o ConcatRange(F, mid + 1, hi)

toLowerCase(s) ==
    LET F(i) == toLowerCaseChar(Char(s, i))
    IN  ConcatRange(F, 1, Len(s))

\* The characters the regular-expression class \s and trim() treat as white space.
WhiteSpace == {" ", "\t", "\n", "\r", "\f"}

\* The characters the regular-expression atom . does not match.
LineTerminators == {"\n", "\r"}

RECURSIVE trimStart(_)
trimStart(s) ==
    IF s # "" /\ Char(s, 1) \in WhiteSpace THEN trimStart(SubSeq(s, 2, Len(s))) ELSE s

RECURSIVE trimEnd(_)
trimEnd(s) ==
    IF s # "" /\ Char(s, Len(s)) \in WhiteSpace THEN trimEnd(SubSeq(s, 1, Len(s) - 1)) ELSE s

\* String.prototype.trim
trim(s) == trimEnd(trimStart(s))

\* String.prototype.startsWith
startsWith(s, prefix) == Len(s) >= Len(prefix) /\ SubSeq(s, 1, Len(prefix)) = prefix

\* String.prototype.includes
includes(s, sub) ==
    \E i \in 1..(Len(s) - Len(sub) + 1) : SubSeq(s, i, i + Len(sub) - 1) = sub

\* s.replace(/c/g, to) for a one-character c.
replaceAll(s, c, to) ==
    LET F(i) == IF Char(s, i) = c THEN to ELSE Char(s, i)
    IN  ConcatRange(F, 1, Len(s))

\* s.replace(c, to) for a one-character c: the first occurrence only.
replaceFirst(s, c, to) ==
    LET at == {i \in 1..Len(s) : Char(s, i) = c}
        first == CHOOSE i \in at : \A j \in at : i <= j
    IN  IF at = {} THEN s
        ELSE SubSeq(s, 1, first - 1) \o to \o SubSeq(s, first + 1, Len(s))

\* s.replace(/\s+/g, ' '): every run of white space becomes one blank.
collapseWhiteSpace(s) ==
    LET F(i) == IF Char(s, i) \notin WhiteSpace THEN Char(s, i)
                ELSE IF i > 1 /\ Char(s, i - 1) \in WhiteSpace THEN ""
                ELSE " "
    IN  ConcatRange(F, 1, Len(s))

\* s.split(sep) for a one-character sep: the pieces, empty ones included.
split(s, sep) ==
    LET at == {i \in 1..Len(s) : Char(s, i) = sep}
        cut(k) == IF k = 0 THEN 0
                  ELSE IF k > Cardinality(at) THEN Len(s) + 1
                  ELSE CHOOSE i \in at : Cardinality({j \in at : j < i}) = k - 1
    IN  [k \in 1..(Cardinality(at) + 1) |-> SubSeq(s, cut(k - 1) + 1, cut(k) - 1)]

\* s.split(/\s+/): the pieces between runs of white space.
splitWhiteSpace(s) == split(collapseWhiteSpace(s), " ")

\* parts.join(sep)
RECURSIVE joinWith(_, _)
joinWith(parts, sep) ==
    IF parts = <<>> THEN ""
    ELSE IF Len(parts) = 1 THEN parts[1]
    ELSE parts[1] \o sep \o joinWith(Tail(parts), sep)

----------------------------------------------------------------------------
(* Regular expressions, as far as the two pattern matchers build them:     *)
(* literal characters, \c, the atom ., the quantifier *, and ^ and $.      *)

\* The source text of a RegExp as a sequence of items.
RECURSIVE RegExpParse(_, _)
RegExpParse(src, i) ==
    IF i > Len(src) THEN <<>>
    ELSE LET c == Char(src, i)
             esc == c = "\\" /\ i < Len(src)
             width == IF esc THEN 2 ELSE 1
             kind == IF esc THEN "lit"
                     ELSE IF c = "." THEN "any"
                     ELSE IF c = "^" THEN "bol"
                     ELSE IF c = "$" THEN "eol"
                     ELSE "lit"
             ch == IF esc THEN Char(src, i + 1) ELSE c
             star == i + width <= Len(src) /\ Char(src, i + width) = "*"
         IN  <<[kind |-> kind, ch |-> ch, star |-> star]>>
                 \o RegExpParse(src, i + width + (IF star THEN 1 ELSE 0))

\* Whether one item accepts the character c.
AtomMatches(item, c, ignoreCase) ==
    IF item.kind = "any" THEN c \notin LineTerminators
    ELSE IF ignoreCase THEN toLowerCaseChar(item.ch) = toLowerCaseChar(c)
    ELSE item.ch = c

\* The positions reached from the positions P by one character the item accepts.
RegExpStep(item, s, P, ignoreCase) ==
    {p + 1 : p \in {q \in P : q < Len(s) /\ AtomMatches(item, Char(s, q + 1), ignoreCase)}}

\* The positions reached from P by any number of characters the item accepts: q
\* is reached from p <= q when no character after p up to q is refused.
RegExpStar(item, s, P, ignoreCase) ==
    LET refused == {k \in 1..Len(s) : ~AtomMatches(item, Char(s, k), ignoreCase)}
    IN  {q \in 0..Len(s) : \E p \in P : p <= q /\ \A k \in refused : k <= p \/ k > q}

\* The positions of s at which a match of items k.. that starts in P can end.
RECURSIVE RegExpRun(_, _, _, _, _)
RegExpRun(items, k, s, P, ignoreCase) ==
    IF k > Len(items) \/ P = {} THEN P
    ELSE LET it == items[k]
             Q == IF it.kind = "bol" THEN P \cap {0}
                  ELSE IF it.kind = "eol" THEN P \cap {Len(s)}
                  ELSE IF it.star THEN RegExpStar(it, s, P, ignoreCase)
                  ELSE RegExpStep(it, s, P, ignoreCase)
         IN  RegExpRun(items, k + 1, s, Q, ignoreCase)

\* new RegExp(src, flags).test(s): some part of s matches.
RegExpTest(src, ignoreCase, s) ==
    RegExpRun(RegExpParse(src, 1), 1, s, 0..Len(s), ignoreCase) # {}

\* s.replace(/[...]/g, '\\$&'): a backslash before every character of the class.
escapeClass(s, class) ==
    LET F(i) == IF Char(s, i) \in class THEN "\\" \o Char(s, i) ELSE Char(s, i)
    IN  ConcatRange(F, 1, Len(s))

----------------------------------------------------------------------------
(* Policy inputs: process.env and JSON.parse *)

\* An environment variable is unset (or empty), or holds a text that JSON.parse
\* rejects, or a JSON value that is not an array, or a JSON array of patterns.
Unset == [kind |-> "unset", list |-> <<>>]
BadJson == [kind |-> "badjson", list |-> <<>>]
NotArray == [kind |-> "notarray", list |-> <<>>]
ArrayOf(list) == [kind |-> "array", list |-> list]

\* JSON.parse(v): whether it throws, whether the value is an array, the array.
JSONparse(v) ==
    [threw |-> v.kind = "badjson", isArray |-> v.kind = "array", list |-> v.list]

defaultDangerousCommands == <<
    "rm *",
    "rm -rf *",
    "rm -rf /",
    "dd if=*",
    "mkfs.*",
    "fdisk",
    "parted",
    "shutdown.*",
    "reboot.*",
    "halt.*",
    "poweroff.*",
    "init 0",
    "init 6",
    "killall.*",
    "pkill.*",
    "chmod 777 *",
    "chown -R * /",
    "find .* -delete",
    "find .* -exec rm",
    "> /dev/sd.*",
    "cat /dev/urandom >",
    "fork.*bomb",
    ":(){ :|:& };:",
    "history -c",
    "unset HISTFILE" >>

loadServerFilter(e) ==
    LET defaultFilter == [allow |-> <<>>, disallow |-> <<>>]
        allowEnv == e.SSH_MCP_ALLOW
        disallowEnv == e.SSH_MCP_DISALLOW
        pa == JSONparse(allowEnv)
        pd == JSONparse(disallowEnv)
        threw == (allowEnv.kind # "unset" /\ pa.threw) \/ (disallowEnv.kind # "unset" /\ pd.threw)
        allowIsArray == allowEnv.kind = "unset" \/ pa.isArray
        disallowIsArray == disallowEnv.kind = "unset" \/ pd.isArray
        allow == IF allowEnv.kind = "unset" THEN <<>> ELSE pa.list
        disallow == IF disallowEnv.kind = "unset" THEN <<>> ELSE pd.list
    IN  IF threw THEN defaultFilter
        ELSE IF ~allowIsArray
             THEN [allow |-> <<>>, disallow |-> IF disallowIsArray THEN disallow ELSE <<>>]
        ELSE IF ~disallowIsArray THEN [allow |-> allow, disallow |-> <<>>]
        ELSE [allow |-> allow, disallow |-> disallow]

loadCommandFilter(e) ==
    LET defaultFilter == [allow |-> <<>>, disallow |-> defaultDangerousCommands]
        allowEnv == e.SSH_MCP_COMMAND_ALLOW
        disallowEnv == e.SSH_MCP_COMMAND_DISALLOW
        pa == JSONparse(allowEnv)
        pd == JSONparse(disallowEnv)
        threw == (allowEnv.kind # "unset" /\ pa.threw) \/ (disallowEnv.kind # "unset" /\ pd.threw)
        allowIsArray == allowEnv.kind = "unset" \/ pa.isArray
        disallowIsArray == disallowEnv.kind = "unset" \/ pd.isArray
        allow == IF allowEnv.kind = "unset" THEN <<>> ELSE pa.list
        disallow == IF disallowEnv.kind = "unset" THEN defaultDangerousCommands ELSE pd.list
    IN  IF threw THEN defaultFilter
        ELSE IF ~allowIsArray
             THEN [allow |-> <<>>,
                   disallow |-> IF disallowIsArray THEN disallow ELSE defaultDangerousCommands]
        ELSE IF ~disallowIsArray THEN [allow |-> allow, disallow |-> defaultDangerousCommands]
        ELSE [allow |-> allow, disallow |-> disallow]

----------------------------------------------------------------------------
(* CommandPolicy and AccessPolicy *)

\* The class [.+^${}()|[\]\\] of matchesCommandPattern.
CommandPatternSpecials == {".", "+", "^", "$", "{", "}", "(", ")", "|", "[", "]", "\\"}

\* The class [.+?^${}()|[\]\\] of matchesPattern.
HostPatternSpecials == CommandPatternSpecials \cup {"?"}

\* matchesCommandPattern had the RegExp been built without the 'i' flag.
matchesCommandPattern_CaseSensitive(command, pattern) ==
    LET escapedPattern ==
            replaceAll(replaceAll(escapeClass(pattern, CommandPatternSpecials), "*", ".*"),
                       "?", ".")
    IN  RegExpTest(escapedPattern, FALSE, trim(command))

matchesCommandPattern(command, pattern) ==
    LET escapedPattern ==
            replaceAll(replaceAll(escapeClass(pattern, CommandPatternSpecials), "*", ".*"),
                       "?", ".")
    IN  RegExpTest(escapedPattern, TRUE, trim(command))

\* The indexes of the patterns of list that the command matches.
CommandHits(cleanCommand, list) ==
    {i \in DOMAIN list : matchesCommandPattern(cleanCommand, list[i])}

\* The last index of S, where the loops of isCommandAllowed and executeScript
\* return at the first.
Max(S) == CHOOSE x \in S : \A y \in S : y <= x

Min(S) == CHOOSE x \in S : \A y \in S : x <= y

\* isCommandAllowed had it consulted the allow list before the disallow list.
isCommandAllowed_AllowFirst(command) ==
    LET allow == commandFilter.allow
        disallow == commandFilter.disallow
        cleanCommand == collapseWhiteSpace(trim(command))
        blocked == CommandHits(cleanCommand, disallow)
    IN  IF Len(allow) > 0 /\ CommandHits(cleanCommand, allow) # {}
        THEN [allowed |-> TRUE, reason |-> ""]
        ELSE IF blocked # {}
        THEN [allowed |-> FALSE,
              reason |-> "Command blocked by security policy. Matches disallowed pattern: '"
                             \o disallow[Min(blocked)] \o "'"]
        ELSE IF Len(allow) = 0 THEN [allowed |-> TRUE, reason |-> ""]
        ELSE [allowed |-> FALSE,
              reason |-> "Command not in allowed list. Use SSH_MCP_COMMAND_ALLOW to permit specific commands."]

isCommandAllowed(command) ==
    LET allow == commandFilter.allow
        disallow == commandFilter.disallow
        cleanCommand == collapseWhiteSpace(trim(command))
        blocked == CommandHits(cleanCommand, disallow)
    IN  IF blocked # {}
        THEN [allowed |-> FALSE,
              reason |-> "Command blocked by security policy. Matches disallowed pattern: '"
                             \o disallow[Min(blocked)] \o "'"]
        ELSE IF Len(allow) = 0 THEN [allowed |-> TRUE, reason |-> ""]
        ELSE IF CommandHits(cleanCommand, allow) # {} THEN [allowed |-> TRUE, reason |-> ""]
        ELSE [allowed |-> FALSE,
              reason |-> "Command not in allowed list. Use SSH_MCP_COMMAND_ALLOW to permit specific commands."]

\* matchesPattern had the RegExp been built without ^ and $.
matchesPattern_Unanchored(hostname, pattern) ==
    LET escapedPattern == replaceAll(escapeClass(pattern, HostPatternSpecials), "*", ".*")
    IN  RegExpTest(escapedPattern, FALSE, hostname)

matchesPattern(hostname, pattern) ==
    LET escapedPattern == replaceAll(escapeClass(pattern, HostPatternSpecials), "*", ".*")
    IN  RegExpTest("^" \o escapedPattern \o "$", FALSE, hostname)

\* isHostAllowed had it no implicit deny: a host that matches no list is let in.
isHostAllowed_NoImplicitDeny(hostname) ==
    ~\E i \in DOMAIN serverFilter.disallow : matchesPattern(hostname, serverFilter.disallow[i])

isHostAllowed(hostname) ==
    LET allow == serverFilter.allow
        disallow == serverFilter.disallow
    IN  IF Len(allow) = 0 /\ Len(disallow) = 0 THEN TRUE
        ELSE IF \E i \in DOMAIN disallow : matchesPattern(hostname, disallow[i]) THEN FALSE
        ELSE IF Len(allow) = 0 THEN TRUE
        ELSE \E i \in DOMAIN allow : matchesPattern(hostname, allow[i])

\* The strings of at most n characters of the alphabet A.
RECURSIVE StringsOver(_, _)
StringsOver(A, n) ==
    IF n = 0 THEN {""}
    ELSE LET S == StringsOver(A, n - 1) IN S \cup {s \o c : s \in S, c \in A}

\* The sequences of at most n elements of S.
RECURSIVE SeqsUpTo(_, _)
SeqsUpTo(S, n) ==
    IF n = 0 THEN {<<>>}
    ELSE LET T == SeqsUpTo(S, n - 1) IN T \cup {Append(t, x) : t \in T, x \in S}

----------------------------------------------------------------------------
(* Buffer.from(s).toString('base64') *)

\* The characters with codes 32..95 and 97..126.
AsciiLow == " !\"#$%&'()*+,-./0123456789:;<=>?@ABCDEFGHIJKLMNOPQRSTUVWXYZ[\\]^_"
AsciiHigh == "abcdefghijklmnopqrstuvwxyz{|}~"
Base64Alphabet == "ABCDEFGHIJKLMNOPQRSTUVWXYZabcdefghijklmnopqrstuvwxyz0123456789+/"

IndexIn(table, c) == CHOOSE i \in 1..Len(table) : Char(table, i) = c

\* The code point of a character; a character outside the ASCII tables is U+00E9,
\* the only one of them the texts hold.
charCodeAt(c) ==
    CASE c = "\t" -> 9
      [] c = "\n" -> 10
      [] c = "\f" -> 12
      [] c = "\r" -> 13
      [] \E i \in 1..Len(AsciiLow) : Char(AsciiLow, i) = c -> 31 + IndexIn(AsciiLow, c)
      [] \E i \in 1..Len(AsciiHigh) : Char(AsciiHigh, i) = c -> 96 + IndexIn(AsciiHigh, c)
      [] OTHER -> 233

\* The UTF-8 bytes of the characters lo..hi of s, for code points below U+0800.
RECURSIVE utf8(_, _, _)
utf8(s, lo, hi) ==
    IF lo > hi THEN <<>>
    ELSE IF lo = hi
    THEN LET code == charCodeAt(Char(s, lo))
         IN  IF code < 128 THEN <<code>>
             ELSE <<192 + (code \div 64), 128 + (code % 64)>>
    ELSE LET mid == (lo + hi) \div 2
         IN  utf8(s, lo, mid) \o utf8(s, mid + 1, hi)

RECURSIVE base64(_)
base64(bytes) ==
    IF bytes = <<>> THEN ""
    ELSE LET n == Len(bytes)
             b1 == bytes[1]
             b2 == IF n >= 2 THEN bytes[2] ELSE 0
             b3 == IF n >= 3 THEN bytes[3] ELSE 0
             v == b1 * 65536 + b2 * 256 + b3
             e(k) == Char(Base64Alphabet, k + 1)
         IN  e(v \div 262144) \o e((v \div 4096) % 64)
                 \o (IF n >= 2 THEN e((v \div 64) % 64) ELSE "=")
                 \o (IF n >= 3 THEN e(v % 64) ELSE "=")
                 \o base64(SubSeq(bytes, 4, n))

toBase64(s) == base64(utf8(s, 1, Len(s)))

----------------------------------------------------------------------------
(* Paths, the file system and glob *)

\* os.homedir()
homedir == "/home/u"

RECURSIVE normalizeSegments(_, _, _)
normalizeSegments(segs, acc, absolute) ==
    IF segs = <<>> THEN acc
    ELSE LET h == Head(segs)
             t == Tail(segs)
         IN  IF h = "" \/ h = "." THEN normalizeSegments(t, acc, absolute)
             ELSE IF h = ".."
                  THEN IF acc # <<>> /\ acc[Len(acc)] # ".."
                       THEN normalizeSegments(t, SubSeq(acc, 1, Len(acc) - 1), absolute)
                       ELSE IF absolute THEN normalizeSegments(t, acc, absolute)
                       ELSE normalizeSegments(t, Append(acc, ".."), absolute)
             ELSE normalizeSegments(t, Append(acc, h), absolute)

\* path.normalize
pathNormalize(path) ==
    LET absolute == startsWith(path, "/")
        body == joinWith(normalizeSegments(split(path, "/"), <<>>, absolute), "/")
        trailing == Len(path) > 1 /\ Char(path, Len(path)) = "/" /\ body # ""
    IN  IF path = "" THEN "."
        ELSE IF body = "" THEN (IF absolute THEN "/" ELSE ".")
        ELSE (IF absolute THEN "/" ELSE "") \o body \o (IF trailing THEN "/" ELSE "")

\* path.join(a, b)
join(a, b) ==
    IF a = "" THEN pathNormalize(b)
    ELSE IF b = "" THEN pathNormalize(a)
    ELSE pathNormalize(a \o "/" \o b)

\* What the file system holds at the place of a directory: readFile fails on it.
Directory == "<directory>"

\* The file the operating system opens for a path, or "" when it opens none: the
\* path resolved, and a regular file of the file system at that place.
resolveFile(files, path) ==
    LET target == pathNormalize(path)
    IN  IF /\ startsWith(path, "/")
           /\ Char(path, Len(path)) # "/"
           /\ target \in DOMAIN files
           /\ files[target] # Directory
        THEN target ELSE ""

\* One path segment against one glob segment: * for any characters, ? for one.
RECURSIVE minimatchSegment(_, _)
minimatchSegment(p, name) ==
    IF p = "" THEN name = ""
    ELSE LET c == Char(p, 1)
             rest == SubSeq(p, 2, Len(p))
         IN  IF c = "*"
             THEN \E k \in 0..Len(name) : minimatchSegment(rest, SubSeq(name, k + 1, Len(name)))
             ELSE /\ name # ""
                  /\ (c = "?" \/ c = Char(name, 1))
                  /\ minimatchSegment(rest, SubSeq(name, 2, Len(name)))

\* A path against a glob pattern, segment by segment; a wildcard at the start of a
\* segment does not match a name that starts with a dot.
minimatch(pattern, path) ==
    LET ps == normalizeSegments(split(pattern, "/"), <<>>, TRUE)
        fs2 == normalizeSegments(split(path, "/"), <<>>, TRUE)
    IN  /\ Len(ps) = Len(fs2)
        /\ \A i \in DOMAIN ps :
              /\ minimatchSegment(ps[i], fs2[i])
              /\ (Char(ps[i], 1) \in {"*", "?"}) => Char(fs2[i], 1) # "."

\* The files glob(pattern) can return: every order of the matching files.
globResults(files, pattern) ==
    LET matches == {f \in DOMAIN files : minimatch(pattern, f)}
    IN  {order \in SeqsUpTo(matches, Cardinality(matches)) :
            Len(order) = Cardinality(matches) /\ Range(order) = matches}

----------------------------------------------------------------------------
(* Values of the variables a specification does not use *)

NoReq == [kind |-> "none"]
NoChild == [state |-> "none"]
NoOutcome == [kind |-> "none"]
NoProbe == [kind |-> "none"]
NoOut == [fn |-> "none"]
NoEnv == [SSH_MCP_ALLOW |-> Unset, SSH_MCP_DISALLOW |-> Unset,
          SSH_MCP_COMMAND_ALLOW |-> Unset, SSH_MCP_COMMAND_DISALLOW |-> Unset]
NoFiles == [path \in {} |-> ""]
NoHosts == [alias \in {} |-> [host |-> alias]]

\* The server is not running: only probe and out change.
ServerIdle ==
    /\ phase = "probe"
    /\ env = NoEnv
    /\ fs = NoFiles
    /\ sshHosts = NoHosts
    /\ stack = <<>>
    /\ declared = <<>>
    /\ req = NoReq
    /\ child = NoChild
    /\ outcome = NoOutcome

ServerUnchanged ==
    UNCHANGED <<phase, env, fs, serverFilter, commandFilter, sshHosts,
                stack, declared, req, child, outcome>>

----------------------------------------------------------------------------
(* matchesCommandPattern on bounded inputs *)

MaxPatternLen == 3
MaxSubjectLen == 3

CommandPatternProbes ==
    StringsOver({"a", "*", "?", "."}, MaxPatternLen)
        \cup {"a+", "(a", "a|b", "a$", "a b", "rm *", "b\\", "[a]", "^a", "a{"}

CommandProbes ==
    StringsOver({"a", "A", ".", " "}, MaxSubjectLen)
        \cup {"aa", "a  b", "a\tb", "a \n b", "(a", "a|b", "a$", "a+", "b\\", "[a]", "^a", "a{",
              "rm x", "RM -RF /home", "arm", "warm up"}

InitCommandPattern ==
    /\ ServerIdle
    /\ serverFilter = [allow |-> <<>>, disallow |-> <<>>]
    /\ commandFilter = [allow |-> <<>>, disallow |-> <<>>]
    /\ probe \in [kind : {"commandPattern"}, command : CommandProbes,
                  pattern : CommandPatternProbes]
    /\ out = NoOut

\* The call of matchesCommandPattern that isCommandAllowed makes for one pattern.
ApplyCommandPattern ==
    /\ probe.kind = "commandPattern"
    /\ out = NoOut
    /\ out' = [fn |-> "matchesCommandPattern",
               result |-> matchesCommandPattern(collapseWhiteSpace(trim(probe.command)),
                                                probe.pattern)]
    /\ UNCHANGED probe
    /\ ServerUnchanged

SpecCommandPattern == InitCommandPattern /\ [][ApplyCommandPattern]_vars

----------------------------------------------------------------------------
(* matchesPattern on bounded inputs *)

HostPatternProbes ==
    StringsOver({"a", "*", "?", "."}, MaxPatternLen)
        \cup {"prod-*", "*.internal", "dev-*", "a+", "(a)", "a|b", "*-db"}

HostProbes ==
    StringsOver({"a", "A", "."}, MaxSubjectLen)
        \cup {"prod-db", "dev-db", "my-prod-db", "PROD-db", "prod-", "x.internal",
              "a+", "aa", "(a)", "a|b", "?"}

InitHostPattern ==
    /\ ServerIdle
    /\ serverFilter = [allow |-> <<>>, disallow |-> <<>>]
    /\ commandFilter = [allow |-> <<>>, disallow |-> <<>>]
    /\ probe \in [kind : {"hostPattern"}, hostname : HostProbes, pattern : HostPatternProbes]
    /\ out = NoOut

ApplyHostPattern ==
    /\ probe.kind = "hostPattern"
    /\ out = NoOut
    /\ out' = [fn |-> "matchesPattern",
               result |-> matchesPattern(probe.hostname, probe.pattern)]
    /\ UNCHANGED probe
    /\ ServerUnchanged

SpecHostPattern == InitHostPattern /\ [][ApplyHostPattern]_vars

----------------------------------------------------------------------------
(* isHostAllowed and isCommandAllowed on bounded policy lists *)

MaxListLen == 2

PolicyPatterns == {"a*", "*b", "b?"}
PolicySubjects == {"ab", "a", "ba", "bb", "AB", "cab"}

InitPolicy ==
    /\ ServerIdle
    /\ \E allow \in SeqsUpTo(PolicyPatterns, MaxListLen),
          disallow \in SeqsUpTo(PolicyPatterns, MaxListLen) :
            /\ serverFilter = [allow |-> allow, disallow |-> disallow]
            /\ commandFilter = [allow |-> allow, disallow |-> disallow]
    /\ probe \in [kind : {"policy"}, subject : PolicySubjects]
    /\ out = NoOut

ApplyHostPolicy ==
    /\ probe.kind = "policy"
    /\ out = NoOut
    /\ out' = [fn |-> "isHostAllowed", allowed |-> isHostAllowed(probe.subject), reason |-> ""]
    /\ UNCHANGED probe
    /\ ServerUnchanged

ApplyCommandPolicy ==
    /\ probe.kind = "policy"
    /\ out = NoOut
    /\ LET r == isCommandAllowed(probe.subject)
       IN  out' = [fn |-> "isCommandAllowed", allowed |-> r.allowed, reason |-> r.reason]
    /\ UNCHANGED probe
    /\ ServerUnchanged

NextPolicy == ApplyHostPolicy \/ ApplyCommandPolicy

SpecPolicy == InitPolicy /\ [][NextPolicy]_vars

----------------------------------------------------------------------------
(* ConfigStore: loadSSHConfig, parseSSHConfig, handleInclude *)

\* let currentHost: SSHHost | null = null
NoHost == [k \in {} |-> ""]

Digits == "0123456789"

\* The value of the longest prefix of s made of decimal digits, from acc.
RECURSIVE digitsValue(_, _)
digitsValue(s, acc) ==
    IF s # "" /\ \E d \in 1..Len(Digits) : Char(Digits, d) = Char(s, 1)
    THEN digitsValue(SubSeq(s, 2, Len(s)), 10 * acc + IndexIn(Digits, Char(s, 1)) - 1)
    ELSE acc

\* parseInt(value): NaN unless the text starts with a digit (after white space).
parseInt(value) ==
    LET t == trimStart(value)
    IN  IF t # "" /\ \E d \in 1..Len(Digits) : Char(Digits, d) = Char(t, 1)
        THEN [nan |-> FALSE, n |-> digitsValue(t, 0)]
        ELSE [nan |-> TRUE, n |-> 0]

\* const [key, ...valueParts] = line.split(/\s+/); const value = valueParts.join(' ')
lineKey(line) == Head(splitWhiteSpace(line))
lineValue(line) == joinWith(Tail(splitWhiteSpace(line)), " ")

\* if (currentHost && this.isHostAllowed(currentHost.host)) this.sshHosts.set(...)
\* The registry insertion had parseSSHConfig not asked isHostAllowed.
commitHost_Unfiltered(hosts, currentHost) ==
    IF currentHost # NoHost THEN (currentHost.host :> currentHost) @@ hosts ELSE hosts

commitHost(hosts, currentHost) ==
    IF currentHost # NoHost /\ isHostAllowed(currentHost.host)
    THEN (currentHost.host :> currentHost) @@ hosts
    ELSE hosts

\* The switch (lowerKey) of parseSSHConfig.
setProperty(currentHost, key, value) ==
    LET lowerKey == toLowerCase(key)
    IN  CASE lowerKey = "hostname" -> ("hostname" :> value) @@ currentHost
          [] lowerKey = "user" -> ("user" :> value) @@ currentHost
          [] lowerKey = "port" -> ("port" :> parseInt(value)) @@ currentHost
          [] lowerKey = "identityfile" ->
                ("identityFile" :> replaceFirst(value, "~", homedir)) @@ currentHost
          [] lowerKey = "proxyjump" -> ("proxyJump" :> value) @@ currentHost
          [] OTHER -> (lowerKey :> value) @@ currentHost

\* The path handleInclude reads or expands.
includeFullPath(includePath, basePath) ==
    LET fullPath == IF ~startsWith(includePath, "/")
                    THEN join(join(basePath, ".."), includePath)
                    ELSE includePath
    IN  replaceFirst(fullPath, "~", homedir)

\* A call of parseSSHConfig(content, basePath): its lines, the index of the next
\* one, its currentHost, and the files of the handleInclude call it is waiting for.
NewFrame(content, basePath) ==
    [basePath |-> basePath, lines |-> split(content, "\n"), i |-> 1,
     currentHost |-> NoHost, pending |-> <<>>]

MaxDepth == 4

Top == stack[Len(stack)]
SetTop(f) == [stack EXCEPT ![Len(stack)] = f]

RequestsUnchanged == UNCHANGED <<req, child, outcome, probe, out>>

loadSSHConfig ==
    /\ phase = "start"
    /\ LET sshConfigPath == join(join(homedir, ".ssh"), "config")
       IN  IF resolveFile(fs, sshConfigPath) = ""
           THEN /\ phase' = "serving"
                /\ stack' = <<>>
           ELSE /\ phase' = "loading"
                /\ stack' = <<NewFrame(fs[resolveFile(fs, sshConfigPath)], sshConfigPath)>>
    /\ UNCHANGED <<env, fs, serverFilter, commandFilter, sshHosts, declared>>
    /\ RequestsUnchanged

\* One turn of the for loop of parseSSHConfig.
parseSSHConfigLine ==
    /\ phase = "loading"
    /\ stack # <<>>
    /\ Top.pending = <<>>
    /\ Top.i <= Len(Top.lines)
    /\ LET f == Top
           line == trim(f.lines[f.i])
           next == [f EXCEPT !.i = f.i + 1]
           key == lineKey(line)
           value == lineValue(line)
       IN  IF line = "" \/ startsWith(line, "#")
           THEN /\ stack' = SetTop(next)
                /\ UNCHANGED <<sshHosts, declared>>
           ELSE IF startsWith(toLowerCase(line), "include ")
           THEN LET includePath == trim(SubSeq(line, 9, Len(line)))
                    fullPath == includeFullPath(includePath, f.basePath)
                IN  /\ UNCHANGED <<sshHosts, declared>>
                    /\ IF includes(fullPath, "*")
                       THEN \E files \in globResults(fs, fullPath) :
                                stack' = SetTop([next EXCEPT !.pending = files])
                       ELSE stack' = SetTop([next EXCEPT !.pending = <<fullPath>>])
           ELSE IF toLowerCase(key) = "host"
           THEN /\ sshHosts' = commitHost(sshHosts, f.currentHost)
                /\ stack' = SetTop([next EXCEPT !.currentHost = [host |-> value]])
                /\ declared' = Append(declared, <<f.basePath, f.i>>)
           ELSE IF f.currentHost # NoHost /\ key # "" /\ value # ""
           THEN /\ stack' = SetTop([next EXCEPT !.currentHost = setProperty(f.currentHost, key, value)])
                /\ UNCHANGED <<sshHosts, declared>>
           ELSE /\ stack' = SetTop(next)
                /\ UNCHANGED <<sshHosts, declared>>
    /\ UNCHANGED <<phase, env, fs, serverFilter, commandFilter>>
    /\ RequestsUnchanged

\* handleInclude had a file that cannot be read ended the whole load.
handleInclude_Abort ==
    /\ phase = "loading"
    /\ stack # <<>>
    /\ Top.pending # <<>>
    /\ LET file == Head(Top.pending)
           rest == SetTop([Top EXCEPT !.pending = Tail(Top.pending)])
       IN  IF resolveFile(fs, file) = ""
           THEN /\ stack' = <<>>
                /\ phase' = "serving"
           ELSE /\ Len(stack) < MaxDepth
                /\ stack' = Append(rest, NewFrame(fs[resolveFile(fs, file)], file))
                /\ UNCHANGED phase
    /\ UNCHANGED <<env, fs, serverFilter, commandFilter, sshHosts, declared>>
    /\ RequestsUnchanged

\* handleInclude: the next file of the include is read and parsed, or skipped with
\* a warning when it cannot be read.
handleInclude ==
    /\ phase = "loading"
    /\ stack # <<>>
    /\ Top.pending # <<>>
    /\ LET file == Head(Top.pending)
           rest == SetTop([Top EXCEPT !.pending = Tail(Top.pending)])
       IN  IF resolveFile(fs, file) = ""
           THEN stack' = rest
           ELSE /\ Len(stack) < MaxDepth
                /\ stack' = Append(rest, NewFrame(fs[resolveFile(fs, file)], file))
    /\ UNCHANGED <<phase, env, fs, serverFilter, commandFilter, sshHosts, declared>>
    /\ RequestsUnchanged

\* The end of parseSSHConfig: the last host is saved and the call returns; when it
\* is the call of loadSSHConfig, run() connects the transport.
parseSSHConfigReturn ==
    /\ phase = "loading"
    /\ stack # <<>>
    /\ Top.pending = <<>>
    /\ Top.i > Len(Top.lines)
    /\ sshHosts' = commitHost(sshHosts, Top.currentHost)
    /\ stack' = SubSeq(stack, 1, Len(stack) - 1)
    /\ phase' = IF Len(stack) = 1 THEN "serving" ELSE "loading"
    /\ UNCHANGED <<env, fs, serverFilter, commandFilter, declared>>
    /\ RequestsUnchanged

----------------------------------------------------------------------------
(* Request handling: admission *)

\* validateHostAccess had it looked at the policy alone and not at the registry.
validateHostAccess_PolicyOnly(host) ==
    IF isHostAllowed(host) THEN [ok |-> TRUE, error |-> ""]
    ELSE [ok |-> FALSE,
          error |-> "Host '" \o host \o "' is not allowed by server access filters"]

validateHostAccess(host) ==
    IF host \in DOMAIN sshHosts THEN [ok |-> TRUE, error |-> ""]
    ELSE IF ~isHostAllowed(host)
         THEN [ok |-> FALSE,
               error |-> "Host '" \o host \o "' is not allowed by server access filters"]
    ELSE [ok |-> FALSE, error |-> "Host '" \o host \o "' not found in SSH config"]

\* What a handler does up to the point where it returns its promise: it throws
\* error, or answers at once (via = "none"), or starts an external process with
\* spawn('ssh', [host, command]) or exec(command). evaluated lists the texts it
\* passed to isCommandAllowed; timer tells what its setTimeout callback does.
Threw(error, evaluated) ==
    [error |-> error, evaluated |-> evaluated, via |-> "none", command |-> "",
     timer |-> "none", encoding |-> "none"]
Answered ==
    [error |-> "", evaluated |-> <<>>, via |-> "none", command |-> "",
     timer |-> "none", encoding |-> "none"]
Started(via, command, evaluated, timer, encoding) ==
    [error |-> "", evaluated |-> evaluated, via |-> via, command |-> command,
     timer |-> timer, encoding |-> encoding]

\* executeCommand had it evaluated the command policy before validating the host.
executeCommand_CommandFirst(host, command, useBase64) ==
    LET access == validateHostAccess(host)
        commandCheck == isCommandAllowed(command)
        finalCommand == IF useBase64
                        THEN "echo '" \o toBase64(command) \o "' | base64 -d | bash"
                        ELSE command
    IN  IF ~commandCheck.allowed THEN Threw(commandCheck.reason, <<command>>)
        ELSE IF ~access.ok THEN Threw(access.error, <<>>)
        ELSE Started("spawn", finalCommand, <<command>>, "reject",
                     IF useBase64 THEN "base64" ELSE "plain")

executeCommand(host, command, useBase64) ==
    LET access == validateHostAccess(host)
        commandCheck == isCommandAllowed(command)
        finalCommand == IF useBase64
                        THEN "echo '" \o toBase64(command) \o "' | base64 -d | bash"
                        ELSE command
    IN  IF ~access.ok THEN Threw(access.error, <<>>)
        ELSE IF ~commandCheck.allowed THEN Threw(commandCheck.reason, <<command>>)
        ELSE Started("spawn", finalCommand, <<command>>, "reject",
                     IF useBase64 THEN "base64" ELSE "plain")

\* script.split('\n').map(trim).filter(line && !startsWith('#') && !startsWith('echo '))
scriptLines(script) ==
    LET trimmed == [i \in DOMAIN split(script, "\n") |-> trim(split(script, "\n")[i])]
        keep(line) == line # "" /\ ~startsWith(line, "#") /\ ~startsWith(line, "echo ")
    IN  SelectSeq(trimmed, keep)

\* executeScript had it passed the script to isCommandAllowed as one command.
executeScript_WholeText(host, script, interpreter) ==
    LET access == validateHostAccess(host)
        commandCheck == isCommandAllowed(script)
        command == "echo '" \o toBase64(script) \o "' | base64 -d | " \o interpreter
    IN  IF ~access.ok THEN Threw(access.error, <<>>)
        ELSE IF ~commandCheck.allowed
             THEN Threw("Script contains disallowed command: \"" \o script \o "\". "
                            \o commandCheck.reason, <<script>>)
        ELSE Started("spawn", command, <<script>>, "reject", "base64")

executeScript(host, script, interpreter) ==
    LET access == validateHostAccess(host)
        lines == scriptLines(script)
        refused == {i \in DOMAIN lines : ~isCommandAllowed(lines[i]).allowed}
        first == Min(refused)
        command == "echo '" \o toBase64(script) \o "' | base64 -d | " \o interpreter
    IN  IF ~access.ok THEN Threw(access.error, <<>>)
        ELSE IF refused # {}
             THEN Threw("Script contains disallowed command: \"" \o lines[first] \o "\". "
                            \o isCommandAllowed(lines[first]).reason,
                        SubSeq(lines, 1, first))
        ELSE Started("spawn", command, lines, "reject", "base64")

getHostInfo(host) ==
    LET access == validateHostAccess(host)
    IN  IF ~access.ok THEN Threw(access.error, <<>>) ELSE Answered

\* An optional argument that the caller left out.
Undefined == "<undefined>"
NoNumber == [given |-> FALSE, n |-> 0]
Number(n) == [given |-> TRUE, n |-> n]

\* The truth value of a text had undefined counted as true.
truthy_Undefined(text) == text # ""

\* The truth value JavaScript gives an optional text or number.
truthy(text) == text # Undefined /\ text # ""
truthyNumber(x) == x.given /\ x.n # 0

\* String(n) for a natural number.
RECURSIVE numberToString(_)
numberToString(n) ==
    IF n < 10 THEN Char(Digits, n + 1)
    ELSE numberToString(n \div 10) \o Char(Digits, (n % 10) + 1)

\* path.substring(0, path.lastIndexOf('/'))
parentOf(path) ==
    LET at == {i \in 1..Len(path) : Char(path, i) = "/"}
    IN  IF at = {} THEN SubSeq(path, 1, Len(path) - 1)
        ELSE SubSeq(path, 1, (CHOOSE i \in at : \A j \in at : j <= i) - 1)

scpFlags(recursive, preservePermissions) ==
    joinWith((IF recursive THEN <<"-r">> ELSE <<>>)
                 \o (IF preservePermissions THEN <<"-p">> ELSE <<>>)
                 \o <<"-C">>, " ")

uploadFile(host, localPath, remotePath, recursive, preservePermissions, createDirectories) ==
    LET access == validateHostAccess(host)
        escapedLocalPath == "\"" \o replaceAll(localPath, "\"", "\\\"") \o "\""
        escapedRemotePath == "\"" \o host \o ":" \o replaceAll(remotePath, "\"", "\\\"") \o "\""
        scp == "scp " \o scpFlags(recursive, preservePermissions) \o " "
                   \o escapedLocalPath \o " " \o escapedRemotePath
        createDirCommand == "ssh \"" \o host \o "\" \"mkdir -p '" \o parentOf(remotePath) \o "'\""
    IN  IF ~access.ok THEN Threw(access.error, <<>>)
        ELSE Started("exec", IF createDirectories THEN createDirCommand \o " && " \o scp ELSE scp,
                     <<>>, "none", "none")

downloadFile(host, remotePath, localPath, recursive, preservePermissions, createDirectories) ==
    LET access == validateHostAccess(host)
        escapedRemotePath == "\"" \o host \o ":" \o replaceAll(remotePath, "\"", "\\\"") \o "\""
        escapedLocalPath == "\"" \o replaceAll(localPath, "\"", "\\\"") \o "\""
        scp == "scp " \o scpFlags(recursive, preservePermissions) \o " "
                   \o escapedRemotePath \o " " \o escapedLocalPath
        createDirCommand == "mkdir -p \"" \o parentOf(localPath) \o "\""
    IN  IF ~access.ok THEN Threw(access.error, <<>>)
        ELSE Started("exec", IF createDirectories THEN createDirCommand \o " && " \o scp ELSE scp,
                     <<>>, "none", "none")

escapeSedPattern(pattern) == replaceAll(replaceAll(pattern, "\\", "\\\\"), "/", "\\/")

\* The replacement escaping had the ampersand left as it is.
escapeSedReplacement_NoAmpersand(replacement) ==
    replaceAll(replaceAll(replaceAll(replacement, "\\", "\\\\"), "/", "\\/"), "\n", "\\n")

escapeSedReplacement(replacement) ==
    replaceAll(replaceAll(replaceAll(replaceAll(replacement, "\\", "\\\\"), "/", "\\/"),
                          "&", "\\&"), "\n", "\\n")

\* The class of needsBase64Encoding without the pattern wildcards.
complexChars_NoGlob == {"'", "\"", "$", "\\", "(", ")", "{", "}", "|", ";", "<", ">", "~"}

\* The class ['"$`\\(){}|;<>*?[\]~] of needsBase64Encoding, but for the backquote,
\* which a TLA+ string cannot hold.
complexChars == {"'", "\"", "$", "\\", "(", ")", "{", "}", "|", ";", "<", ">", "*", "?",
                 "[", "]", "~"}

\* Whether text holds a character outside \x00-\x7F.
hasUnicode(text) == \E i \in 1..Len(text) : charCodeAt(Char(text, i)) > 127

needsBase64Encoding(pattern, content) ==
    \/ \E i \in 1..Len(pattern) : Char(pattern, i) \in complexChars
    \/ \E i \in 1..Len(content) : Char(content, i) \in complexChars
    \/ includes(pattern, "\n")
    \/ includes(content, "\n")
    \/ hasUnicode(pattern)
    \/ hasUnicode(content)

\* The sed script file form had the removal chained to the edit by &&.
sedScriptFile_Chained(sedScript, filePath) ==
    "echo '" \o toBase64(sedScript) \o "' | base64 -d > /tmp/sed_script_$$ && sed -i -f /tmp/sed_script_$$ \""
        \o filePath \o "\" && rm -f /tmp/sed_script_$$"

\* The sed script file form shared by replace and delete by pattern.
sedScriptFile(sedScript, filePath) ==
    "echo '" \o toBase64(sedScript) \o "' | base64 -d > /tmp/sed_script_$$ && sed -i -f /tmp/sed_script_$$ \""
        \o filePath \o "\"; rm -f /tmp/sed_script_$$"

\* The backup step had the copy without the test for the target.
backupPrefix_Unguarded(filePath, backup) ==
    IF backup THEN "cp \"" \o filePath \o "\" \"" \o filePath \o ".bak\"; " ELSE ""

\* The backup step editFile puts before the edit.
backupPrefix(filePath, backup) ==
    IF backup
    THEN "[ -f \"" \o filePath \o "\" ] && cp \"" \o filePath \o "\" \"" \o filePath \o ".bak\"; "
    ELSE ""

editFile(host, filePath, operation, lineNumber, content, pattern, backup) ==
    LET access == validateHostAccess(host)
        prefix == backupPrefix(filePath, backup)
        line == numberToString(lineNumber.n)
        go(command) == Started("spawn", prefix \o command, <<>>, "none", "base64")
    IN  IF ~access.ok THEN Threw(access.error, <<>>)
        ELSE IF operation = "replace"
        THEN IF truthyNumber(lineNumber) /\ content # Undefined
             THEN go("echo '" \o toBase64(content) \o "' | base64 -d | { read newline; sed -i '"
                         \o line \o "s/.*/'\"$newline\"'/' \"" \o filePath \o "\"; }")
             ELSE IF truthy(pattern) /\ content # Undefined
             THEN IF needsBase64Encoding(pattern, content)
                  THEN go(sedScriptFile("s/" \o escapeSedPattern(pattern) \o "/"
                                            \o escapeSedReplacement(content) \o "/g", filePath))
                  ELSE go("sed -i 's/" \o escapeSedPattern(pattern) \o "/"
                              \o escapeSedReplacement(content) \o "/g' \"" \o filePath \o "\"")
             ELSE Threw("Replace operation requires either lineNumber or pattern, and content", <<>>)
        ELSE IF operation = "insert"
        THEN IF truthyNumber(lineNumber) /\ content # Undefined
             THEN go("echo '" \o toBase64(content) \o "' | base64 -d | { read newline; sed -i '"
                         \o line \o "a\\'\"$newline\" \"" \o filePath \o "\"; }")
             ELSE Threw("Insert operation requires lineNumber and content", <<>>)
        ELSE IF operation = "delete"
        THEN IF truthyNumber(lineNumber)
             THEN go("sed -i '" \o line \o "d' \"" \o filePath \o "\"")
             ELSE IF truthy(pattern)
             THEN IF needsBase64Encoding(pattern, "")
                  THEN go(sedScriptFile("/" \o escapeSedPattern(pattern) \o "/d", filePath))
                  ELSE go("sed -i '/" \o escapeSedPattern(pattern) \o "/d' \"" \o filePath \o "\"")
             ELSE Threw("Delete operation requires either lineNumber or pattern", <<>>)
        ELSE Threw("Unknown operation: " \o operation, <<>>)

rewriteFile(host, filePath, content, backup, createDirectories) ==
    LET access == validateHostAccess(host)
        command ==
            (IF createDirectories THEN "mkdir -p \"$(dirname \"" \o filePath \o "\")\"; " ELSE "")
                \o (IF backup
                    THEN "[ -f \"" \o filePath \o "\" ] && cp \"" \o filePath \o "\" \""
                             \o filePath \o ".bak\"; "
                    ELSE "")
                \o "echo '" \o toBase64(content) \o "' | base64 -d > \"" \o filePath
                \o "\" && echo \"WRITE_SUCCESS\" || echo \"WRITE_FAILED\""
    IN  IF ~access.ok THEN Threw(access.error, <<>>)
        ELSE Started("spawn", command, <<>>, "none", "base64")

appendToFile(host, filePath, content, newline, createFile) ==
    LET access == validateHostAccess(host)
        finalContent == IF newline /\ Len(content) > 0 /\ ~startsWith(content, "\n")
                        THEN "\n" \o content ELSE content
        command == (IF createFile THEN "touch \"" \o filePath \o "\"; " ELSE "")
                       \o "echo '" \o toBase64(finalContent) \o "' | base64 -d >> \""
                       \o filePath \o "\""
    IN  IF ~access.ok THEN Threw(access.error, <<>>)
        ELSE Started("spawn", command, <<>>, "none", "base64")

compressFlag(compression) ==
    CASE compression = "gzip" -> "z"
      [] compression = "bzip2" -> "j"
      [] compression = "xz" -> "J"
      [] compression = "none" -> ""
      [] OTHER -> "z"

bulkTransfer(host, direction, remotePath, localPath, compression, preservePermissions, excludePatterns, createDirectories) ==
    LET access == validateHostAccess(host)
        tarFlags == IF preservePermissions THEN "fp" ELSE "f"
        excludeArgs == joinWith([i \in DOMAIN excludePatterns |->
                                    "--exclude=\"" \o excludePatterns[i] \o "\""], " ")
        create == "tar c" \o compressFlag(compression) \o tarFlags \o " - " \o excludeArgs
        extract == "tar x" \o compressFlag(compression) \o tarFlags \o " -"
        download == "ssh \"" \o host \o "\" \"cd '" \o remotePath \o "' && " \o create
                        \o " .\" | " \o extract \o " -C \"" \o localPath \o "\""
        upload(remote) == create \o " -C \"" \o localPath \o "\" . | ssh \"" \o host
                              \o "\" \"" \o remote \o "cd '" \o remotePath \o "' && "
                              \o extract \o "\""
    IN  IF ~access.ok THEN Threw(access.error, <<>>)
        ELSE IF direction = "download"
        THEN Started("exec", IF createDirectories
                             THEN "mkdir -p \"" \o localPath \o "\" && " \o download
                             ELSE download,
                     <<>>, "none", "none")
        ELSE IF direction = "upload"
        THEN Started("exec", IF createDirectories
                             THEN upload("mkdir -p '" \o remotePath \o "' && ")
                             ELSE upload(""),
                     <<>>, "none", "none")
        ELSE Threw("Invalid direction: " \o direction \o ". Must be 'download' or 'upload'.", <<>>)

readFile(host, filePath) ==
    LET access == validateHostAccess(host)
    IN  IF ~access.ok THEN Threw(access.error, <<>>)
        ELSE Started("spawn", "cat \"" \o filePath \o "\"", <<>>, "none", "none")

\* The text of Date.now() at the one instant the model lets diffFile run.
now == "1700000000000"

diffFlag(contextLines) ==
    "diff -u" \o (IF contextLines > 0 THEN numberToString(contextLines) ELSE "")

diffFile(host, filePath, content, contextLines) ==
    LET access == validateHostAccess(host)
        tempFile == "/tmp/diff_content_$$_" \o now
        command == "echo '" \o toBase64(content) \o "' | base64 -d > \"" \o tempFile
                       \o "\" && " \o diffFlag(contextLines) \o " \"" \o filePath \o "\" \""
                       \o tempFile \o "\"; DIFF_EXIT=$?; rm -f \"" \o tempFile
                       \o "\"; exit $DIFF_EXIT"
    IN  IF ~access.ok THEN Threw(access.error, <<>>)
        ELSE Started("spawn", command, <<>>, "none", "none")

diffFiles(host, filePath1, filePath2, contextLines) ==
    LET access == validateHostAccess(host)
    IN  IF ~access.ok THEN Threw(access.error, <<>>)
        ELSE Started("spawn",
                     diffFlag(contextLines) \o " \"" \o filePath1 \o "\" \"" \o filePath2 \o "\"",
                     <<>>, "none", "none")

restartNginx(host, testOnly) ==
    LET access == validateHostAccess(host)
        command == IF testOnly THEN "nginx -t"
                   ELSE "nginx -t && (systemctl reload nginx || systemctl restart nginx) && systemctl status nginx --no-pager -l"
    IN  IF ~access.ok THEN Threw(access.error, <<>>)
        ELSE Started("spawn", command, <<>>, "none", "none")

listServices(host, pattern, showAll) ==
    LET access == validateHostAccess(host)
        command == "systemctl list-units --type=service --no-pager"
                       \o (IF showAll THEN " --all" ELSE "")
                       \o (IF truthy(pattern) THEN " '" \o pattern \o "'" ELSE "")
    IN  IF ~access.ok THEN Threw(access.error, <<>>)
        ELSE Started("spawn", command, <<>>, "none", "none")

listTimers(host, showAll) ==
    LET access == validateHostAccess(host)
        command == "systemctl list-timers --no-pager" \o (IF showAll THEN " --all" ELSE "")
    IN  IF ~access.ok THEN Threw(access.error, <<>>)
        ELSE Started("spawn", command, <<>>, "none", "none")

systemctl(host, action, service, followStatus) ==
    LET access == validateHostAccess(host)
        status == "systemctl status " \o service \o " --no-pager -l"
        command == IF followStatus /\ action # "status"
                   THEN "systemctl " \o action \o " " \o service \o " && " \o status
                   ELSE IF action = "status" THEN status
                   ELSE "systemctl " \o action \o " " \o service
    IN  IF ~access.ok THEN Threw(access.error, <<>>)
        ELSE Started("spawn", command, <<>>, "none", "none")

journalctl(host, service, since, until, lines, priority, follow) ==
    LET access == validateHostAccess(host)
        command == "journalctl --no-pager"
                       \o (IF truthy(service) THEN " -u " \o service ELSE "")
                       \o (IF truthy(since) THEN " --since=\"" \o since \o "\"" ELSE "")
                       \o (IF truthy(until) THEN " --until=\"" \o until \o "\"" ELSE "")
                       \o (IF truthy(priority) THEN " -p " \o priority ELSE "")
                       \o (IF lines # 0 /\ ~follow THEN " -n " \o numberToString(lines) ELSE "")
                       \o (IF follow THEN " -f" ELSE "")
    IN  IF ~access.ok THEN Threw(access.error, <<>>)
        ELSE Started("spawn", command, <<>>, IF follow THEN "kill" ELSE "none", "none")

serviceLogs(host, service, pattern, timeRange, lines) ==
    LET access == validateHostAccess(host)
        since == IF pattern \in {"startup", "all"} THEN "today" ELSE timeRange
        priority == IF pattern = "errors" THEN "err" ELSE Undefined
        actualLines == CASE pattern = "startup" -> 200
                         [] pattern = "all" -> IF lines > 500 THEN lines ELSE 500
                         [] OTHER -> lines
    IN  IF ~access.ok THEN Threw(access.error, <<>>)
        ELSE journalctl(host, service, since, Undefined, actualLines, priority, FALSE)

----------------------------------------------------------------------------
(* Request handling: the tool calls *)

RequestHosts == {"dev-db", "prod-db", "x", "ghost"}

CommandInputs == {
    "ls -la",
    "rm -rf /var/tmp/x",
    "shutdown -h now",
    "reboot",
    "halt",
    "poweroff",
    "  RM \t file.txt ",
    "systemctl status nginx",
    "./shutdown.sh" }

ScriptInputs == {
    "# cleanup\necho rm -rf /\n  ls -la\n",
    "ls\n  rm -rf /tmp/x\nhistory -c",
    "cd /tmp\necho\nls",
    "systemctl status nginx\n\n# done" }

\* An optional boolean argument, and the value of (arg ?? fallback).
Missing == [given |-> FALSE, v |-> FALSE]
Given(v) == [given |-> TRUE, v |-> v]
orElse(arg, fallback) == IF arg.given THEN arg.v ELSE fallback
textOrElse(arg, fallback) == IF arg = Undefined THEN fallback ELSE arg
numberOrElse(arg, fallback) == IF arg.given THEN arg.n ELSE fallback

RemoteFile == "/etc/app/app.conf"
LocalFile == "/tmp/app.conf"

\* The characters the patterns and contents of the edits are varied over.
EditCharacters == {"'", "\"", "$", "\\", "(", ")", "{", "}", "|", ";", "<", ">", "*", "?", "[", "]", "~",
                   "\n", "é", "&", " ", "#", "!", "^", "."}

EditInputs == {
    [operation |-> "replace", lineNumber |-> Number(3), content |-> "x=1", pattern |-> Undefined],
    [operation |-> "replace", lineNumber |-> NoNumber, content |-> "new", pattern |-> "old"],
    [operation |-> "replace", lineNumber |-> NoNumber, content |-> "a/b", pattern |-> "$x"],
    [operation |-> "replace", lineNumber |-> NoNumber, content |-> Undefined, pattern |-> "old"],
    [operation |-> "insert", lineNumber |-> Number(12), content |-> "line", pattern |-> Undefined],
    [operation |-> "insert", lineNumber |-> NoNumber, content |-> "line", pattern |-> Undefined],
    [operation |-> "delete", lineNumber |-> Number(0), content |-> Undefined, pattern |-> "tmp"],
    [operation |-> "delete", lineNumber |-> NoNumber, content |-> Undefined, pattern |-> "a*"],
    [operation |-> "delete", lineNumber |-> NoNumber, content |-> Undefined, pattern |-> Undefined],
    [operation |-> "truncate", lineNumber |-> NoNumber, content |-> Undefined, pattern |-> Undefined],
    [operation |-> "replace", lineNumber |-> NoNumber, content |-> "new", pattern |-> Undefined],
    [operation |-> "replace", lineNumber |-> Number(3), content |-> "x=1", pattern |-> "old"],
    [operation |-> "insert", lineNumber |-> Number(12), content |-> Undefined, pattern |-> Undefined],
    [operation |-> "replace", lineNumber |-> NoNumber, content |-> "it's", pattern |-> "PRICE=\\$[0-9]+"],
    [operation |-> "replace", lineNumber |-> NoNumber, content |-> "x&y #1", pattern |-> "a.b"] }
    \cup {[operation |-> "delete", lineNumber |-> NoNumber, content |-> Undefined, pattern |-> "k" \o c] :
             c \in EditCharacters}
    \cup {[operation |-> "replace", lineNumber |-> NoNumber, content |-> c \o "v", pattern |-> "old"] :
             c \in EditCharacters \ {"&", " ", "#", "!", "^", "."}}

ServerFixed == UNCHANGED <<phase, env, fs, serverFilter, commandFilter, sshHosts, stack, declared, probe, out>>

\* A request had been taken whatever the phase of the startup.
Idle_AnyPhase == req = NoReq

\* The transport is connected, after loadSSHConfig has returned, and no request is
\* being handled.
Idle == phase = "serving" /\ req = NoReq

\* The handler of tool `tool` has run on `args` and done `plan`.
Serve(tool, host, args, plan) ==
    /\ req' = [tool |-> tool, host |-> host, args |-> args, evaluated |-> plan.evaluated,
               encoding |-> plan.encoding]
    /\ IF plan.error # ""
       THEN /\ child' = NoChild
            /\ outcome' = [kind |-> "rejected", error |-> plan.error]
       ELSE IF plan.via = "none"
       THEN /\ child' = NoChild
            /\ outcome' = [kind |-> "resolved", exitCode |-> "none", success |-> TRUE]
       ELSE /\ child' = [state |-> "running", via |-> plan.via, host |-> host,
                         command |-> plan.command,
                         timer |-> IF plan.timer = "none" THEN "none" ELSE "armed",
                         onTimeout |-> plan.timer, signal |-> "none"]
            /\ outcome' = [kind |-> "pending"]
    /\ ServerFixed

ssh_execute_command ==
    /\ Idle
    /\ \E host \in RequestHosts, command \in CommandInputs, useBase64 \in BOOLEAN,
          timeout \in {NoNumber, Number(5)} :
          Serve("ssh_execute_command", host,
                [command |-> command, useBase64 |-> useBase64,
                 timeout |-> IF truthyNumber(timeout) THEN timeout.n ELSE 30],
                executeCommand(host, command, useBase64))

ssh_execute_script ==
    /\ Idle
    /\ \E host \in RequestHosts, script \in ScriptInputs, interpreter \in {Undefined, "sh"} :
          Serve("ssh_execute_script", host,
                [script |-> script, timeout |-> 60,
                 interpreter |-> IF truthy(interpreter) THEN interpreter ELSE "bash"],
                executeScript(host, script, IF truthy(interpreter) THEN interpreter ELSE "bash"))

ssh_list_hosts ==
    /\ Idle
    /\ Serve("ssh_list_hosts", Undefined, [none |-> TRUE], Answered)

ssh_get_host_info ==
    /\ Idle
    /\ \E host \in RequestHosts :
          Serve("ssh_get_host_info", host, [host |-> host], getHostInfo(host))

ssh_upload_file ==
    /\ Idle
    /\ \E host \in RequestHosts, recursive \in {Missing, Given(TRUE)},
          createDirectories \in {Missing, Given(FALSE)} :
          Serve("ssh_upload_file", host,
                [localPath |-> LocalFile, remotePath |-> RemoteFile],
                uploadFile(host, LocalFile, RemoteFile, orElse(recursive, FALSE),
                           orElse(Missing, TRUE), orElse(createDirectories, TRUE)))

ssh_download_file ==
    /\ Idle
    /\ \E host \in RequestHosts, preservePermissions \in {Missing, Given(FALSE)},
          createDirectories \in {Missing, Given(FALSE)} :
          Serve("ssh_download_file", host,
                [localPath |-> LocalFile, remotePath |-> RemoteFile],
                downloadFile(host, RemoteFile, LocalFile, orElse(Missing, FALSE),
                             orElse(preservePermissions, TRUE), orElse(createDirectories, TRUE)))

ssh_edit_file ==
    /\ Idle
    /\ \E host \in RequestHosts, edit \in EditInputs, backup \in {Missing, Given(FALSE), Given(TRUE)} :
          Serve("ssh_edit_file", host,
                [operation |-> edit.operation, lineNumber |-> edit.lineNumber,
                 content |-> edit.content, pattern |-> edit.pattern, backup |-> backup],
                editFile(host, RemoteFile, edit.operation, edit.lineNumber, edit.content,
                         edit.pattern, orElse(backup, TRUE)))

ssh_rewrite_file ==
    /\ Idle
    /\ \E host \in RequestHosts, backup \in {Missing, Given(FALSE)},
          createDirectories \in {Missing, Given(TRUE)} :
          Serve("ssh_rewrite_file", host, [content |-> "key=value\n"],
                rewriteFile(host, RemoteFile, "key=value\n", orElse(backup, TRUE),
                            orElse(createDirectories, FALSE)))

ssh_append_to_file ==
    /\ Idle
    /\ \E host \in RequestHosts, content \in {"x", "\nx", ""}, newline \in {Missing, Given(FALSE)},
          createFile \in {Missing, Given(FALSE)} :
          Serve("ssh_append_to_file", host, [content |-> content],
                appendToFile(host, RemoteFile, content, orElse(newline, TRUE),
                             orElse(createFile, TRUE)))

ssh_bulk_transfer ==
    /\ Idle
    /\ \E host \in RequestHosts, direction \in {"download", "upload", "sideways"},
          compression \in {Undefined, "xz", "zip"},
          excludePatterns \in {<<>>, <<"*.log", "tmp">>},
          createDirectories \in {Missing, Given(FALSE)} :
          Serve("ssh_bulk_transfer", host, [direction |-> direction],
                bulkTransfer(host, direction, "/srv/app", "/tmp/app",
                             textOrElse(compression, "gzip"), orElse(Missing, TRUE),
                             excludePatterns, orElse(createDirectories, TRUE)))

ssh_read_file ==
    /\ Idle
    /\ \E host \in RequestHosts :
          Serve("ssh_read_file", host, [filePath |-> RemoteFile], readFile(host, RemoteFile))

ssh_diff_file ==
    /\ Idle
    /\ \E host \in RequestHosts, contextLines \in {NoNumber, Number(0)} :
          Serve("ssh_diff_file", host, [filePath |-> RemoteFile],
                diffFile(host, RemoteFile, "key=value\n", numberOrElse(contextLines, 3)))

ssh_diff_files ==
    /\ Idle
    /\ \E host \in RequestHosts, contextLines \in {NoNumber, Number(10)} :
          Serve("ssh_diff_files", host, [filePath |-> RemoteFile],
                diffFiles(host, RemoteFile, RemoteFile \o ".bak", numberOrElse(contextLines, 3)))

ssh_restart_nginx ==
    /\ Idle
    /\ \E host \in RequestHosts, testOnly \in {Missing, Given(TRUE)} :
          Serve("ssh_restart_nginx", host, [testOnly |-> orElse(testOnly, FALSE)],
                restartNginx(host, orElse(testOnly, FALSE)))

ssh_list_services ==
    /\ Idle
    /\ \E host \in RequestHosts, pattern \in {Undefined, "nginx*"},
          showAll \in {Missing, Given(TRUE)} :
          Serve("ssh_list_services", host, [pattern |-> pattern],
                listServices(host, pattern, orElse(showAll, FALSE)))

ssh_list_timers ==
    /\ Idle
    /\ \E host \in RequestHosts, showAll \in {Missing, Given(TRUE)} :
          Serve("ssh_list_timers", host, [showAll |-> orElse(showAll, FALSE)],
                listTimers(host, orElse(showAll, FALSE)))

ssh_systemctl ==
    /\ Idle
    /\ \E host \in RequestHosts, action \in {"restart", "status", "is-active"},
          followStatus \in {Missing, Given(FALSE)} :
          Serve("ssh_systemctl", host, [action |-> action, service |-> "nginx"],
                systemctl(host, action, "nginx", orElse(followStatus, TRUE)))

ssh_journalctl ==
    /\ Idle
    /\ \E host \in RequestHosts, service \in {Undefined, "nginx"},
          since \in {Undefined, "1 hour ago"}, lines \in {NoNumber, Number(0)},
          priority \in {Undefined, "err"}, follow \in {Missing, Given(TRUE)} :
          Serve("ssh_journalctl", host, [service |-> service, timeout |-> 30],
                journalctl(host, service, since, Undefined, numberOrElse(lines, 50), priority,
                           orElse(follow, FALSE)))

ssh_service_logs ==
    /\ Idle
    /\ \E host \in RequestHosts, pattern \in {Undefined, "errors", "startup", "all", "weird"},
          lines \in {NoNumber, Number(700)} :
          Serve("ssh_service_logs", host, [service |-> "nginx"],
                serviceLogs(host, "nginx", textOrElse(pattern, "recent"),
                            textOrElse(Undefined, "5m"), numberOrElse(lines, 100)))

----------------------------------------------------------------------------
(* Request handling: the events of the external process *)

\* What the process can report: its exit code (null when a signal ended it) and
\* whether its output streams carried the texts the handlers look for.
ExitCodes == {"0", "1", "2"}
Outputs == {"", "WRITE_SUCCESS\n", "WRITE_FAILED\n"}
ErrorOutputs == {"", "bash: permission denied\n"}
SpawnErrors == {"spawn ssh ENOENT"}

\* The success field each close handler computes.
success(tool, args, code, stdout, stderr) ==
    CASE tool = "ssh_rewrite_file" ->
             /\ code = "0"
             /\ includes(stdout, "WRITE_SUCCESS")
             /\ ~(includes(stdout, "WRITE_FAILED") \/ Len(trim(stderr)) > 0)
      [] tool \in {"ssh_diff_file", "ssh_diff_files"} -> code # "2"
      [] tool = "ssh_systemctl" ->
             /\ (args.action \in {"start", "stop", "restart", "reload", "enable", "disable",
                                  "mask", "unmask"}) => code = "0"
             /\ args.action = "status" => code = "0"
      [] OTHER -> code = "0"

\* The text in front of error.message when the process could not be run.
failurePrefix(tool) ==
    CASE tool = "ssh_execute_command" -> "SSH execution failed: "
      [] tool = "ssh_execute_script" -> "SSH script execution failed: "
      [] tool = "ssh_edit_file" -> "SSH edit file failed: "
      [] tool = "ssh_rewrite_file" -> "SSH rewrite file failed: "
      [] tool = "ssh_append_to_file" -> "SSH append to file failed: "
      [] tool = "ssh_read_file" -> "SSH read file failed: "
      [] tool = "ssh_diff_file" -> "SSH diff file failed: "
      [] tool = "ssh_diff_files" -> "SSH diff files failed: "
      [] tool = "ssh_restart_nginx" -> "SSH nginx operation failed: "
      [] tool = "ssh_list_services" -> "SSH list services failed: "
      [] tool = "ssh_list_timers" -> "SSH list timers failed: "
      [] tool = "ssh_systemctl" -> "SSH systemctl failed: "
      [] OTHER -> "SSH journalctl failed: "

\* String(error) of the McpError a handler rejected with, as serviceLogs embeds it.
errorToString(message) == "McpError: MCP error -32603: " \o message

\* A promise settles once: resolve and reject after that change nothing.
\* The promise had taken the last of the outcomes given to it.
settle_Last(result) == outcome' = result

settle(result) == outcome' = IF outcome.kind = "pending" THEN result ELSE outcome

\* child.on('close'): the timer, where the handler has one, is cleared and the
\* promise resolved with the exit code.
childClose ==
    /\ child.state \in {"running", "failed"}
    /\ child.via = "spawn"
    /\ \E code \in ExitCodes \cup {"null"}, stdout \in Outputs, stderr \in ErrorOutputs :
          /\ (code = "null") => (child.signal # "none")
          /\ req.tool # "ssh_rewrite_file" => stdout = "" /\ stderr = ""
          /\ settle([kind |-> "resolved", exitCode |-> code,
                     success |-> success(req.tool, req.args, code, stdout, stderr)])
    /\ child' = [child EXCEPT !.state = "closed",
                              !.timer = IF @ = "armed" THEN "cleared" ELSE @]
    /\ UNCHANGED req
    /\ ServerFixed

\* child.on('error'): the timer is cleared and the promise rejected.
childError ==
    /\ child.state = "running"
    /\ child.via = "spawn"
    /\ \E message \in SpawnErrors :
          settle([kind |-> "rejected",
                  error |-> IF req.tool = "ssh_service_logs"
                            THEN "Service logs failed: "
                                     \o errorToString(failurePrefix(req.tool) \o message)
                            ELSE failurePrefix(req.tool) \o message])
    /\ child' = [child EXCEPT !.state = "failed",
                              !.timer = IF @ = "armed" THEN "cleared" ELSE @]
    /\ UNCHANGED req
    /\ ServerFixed

\* The setTimeout callback: SIGTERM to the process and, in executeCommand and
\* executeScript, rejection of the promise.
timerFires ==
    /\ child.state = "running"
    /\ child.timer = "armed"
    /\ child' = [child EXCEPT !.timer = "fired", !.signal = "SIGTERM"]
    /\ IF child.onTimeout = "reject"
       THEN settle([kind |-> "rejected",
                    error |-> (IF req.tool = "ssh_execute_command" THEN "Command" ELSE "Script")
                                  \o " timed out after " \o numberToString(req.args.timeout)
                                  \o " seconds"])
       ELSE UNCHANGED outcome
    /\ UNCHANGED req
    /\ ServerFixed

\* The callback of exec(command, ...): an error rejects, anything else resolves
\* with success: true.
execCallback ==
    /\ child.state = "running"
    /\ child.via = "exec"
    /\ \E failed \in BOOLEAN :
          settle(IF failed
                 THEN [kind |-> "rejected",
                       error |-> (CASE req.tool = "ssh_upload_file" -> "SCP upload failed: "
                                    [] req.tool = "ssh_download_file" -> "SCP download failed: "
                                    [] OTHER -> "Bulk transfer failed: ")
                                     \o "Command failed: " \o child.command]
                 ELSE [kind |-> "resolved", exitCode |-> "none", success |-> TRUE])
    /\ child' = [child EXCEPT !.state = "closed"]
    /\ UNCHANGED req
    /\ ServerFixed

\* The request handler returns or throws what the handler's promise settled to,
\* and the server waits for the next request.
respond ==
    /\ req # NoReq
    /\ outcome.kind \in {"resolved", "rejected"}
    /\ child = NoChild \/ child.state # "running"
    /\ req' = NoReq
    /\ child' = NoChild
    /\ outcome' = NoOutcome
    /\ ServerFixed

----------------------------------------------------------------------------
(* The inventories and environments the server is started with *)

RootConfig ==
    "# inventory\nHost prod-db\n  HostName 10.0.0.1\n  User admin\n  Port 2222\n\nInclude config.d/*.conf\n  IdentityFile ~/.ssh/id_prod\ninclude missing.conf\nHost dev-db\n  HostName 10.0.0.2\n  ForwardAgent yes\n"

\* A root file whose first stanza is still open when its includes are read: one
\* include starts with ~, the other is a wildcard that also matches a directory.
OpenStanzaConfig ==
    "Host x\n  HostName 9.9.9.9\nInclude ~/.ssh/extra.conf\nInclude config.d/*\nHost y\n  HostName 3.3.3.3\n  User bob\nHost y\n  Port 2200\n"

FileSystems == {
    [path \in {"/home/u/.ssh/config", "/home/u/.ssh/config.d/a.conf",
               "/home/u/.ssh/config.d/b.conf"} |->
        CASE path = "/home/u/.ssh/config" -> RootConfig
          [] path = "/home/u/.ssh/config.d/a.conf" -> "Host x\n  HostName 1.1.1.1\n  User alice"
          [] OTHER -> "Host x\n  HostName 2.2.2.2\nHost prod-web\n  HostName 10.0.0.3"],
    [path \in {"/home/u/.ssh/config", "/home/u/.ssh/extra.conf",
               "/home/u/.ssh/config.d/a.conf", "/home/u/.ssh/config.d/old"} |->
        CASE path = "/home/u/.ssh/config" -> OpenStanzaConfig
          [] path = "/home/u/.ssh/extra.conf" -> "Host z\n  HostName 4.4.4.4"
          [] path = "/home/u/.ssh/config.d/a.conf" -> "Host x\n  HostName 1.1.1.1\n  User alice"
          [] OTHER -> Directory],
    NoFiles }

Environments == {
    NoEnv,
    [NoEnv EXCEPT !.SSH_MCP_DISALLOW = ArrayOf(<<"prod-*">>)],
    [SSH_MCP_ALLOW |-> ArrayOf(<<"*-db", "x">>),
     SSH_MCP_DISALLOW |-> ArrayOf(<<"prod-*">>),
     SSH_MCP_COMMAND_ALLOW |-> ArrayOf(<<"systemctl status *", "ls*", "rm -i ?">>),
     SSH_MCP_COMMAND_DISALLOW |-> ArrayOf(<<"rm -rf *", "shutdown.*">>)] }

Init ==
    /\ phase = "start"
    /\ env \in Environments
    /\ fs \in FileSystems
    /\ serverFilter = loadServerFilter(env)
    /\ commandFilter = loadCommandFilter(env)
    /\ sshHosts = NoHosts
    /\ stack = <<>>
    /\ declared = <<>>
    /\ req = NoReq
    /\ child = NoChild
    /\ outcome = NoOutcome
    /\ probe = NoProbe
    /\ out = NoOut

Next ==
    \/ loadSSHConfig
    \/ parseSSHConfigLine
    \/ handleInclude
    \/ parseSSHConfigReturn
    \/ ssh_execute_command
    \/ ssh_execute_script
    \/ ssh_list_hosts
    \/ ssh_get_host_info
    \/ ssh_upload_file
    \/ ssh_download_file
    \/ ssh_edit_file
    \/ ssh_rewrite_file
    \/ ssh_append_to_file
    \/ ssh_bulk_transfer
    \/ ssh_read_file
    \/ ssh_diff_file
    \/ ssh_diff_files
    \/ ssh_restart_nginx
    \/ ssh_list_services
    \/ ssh_list_timers
    \/ ssh_systemctl
    \/ ssh_journalctl
    \/ ssh_service_logs
    \/ childClose
    \/ childError
    \/ timerFires
    \/ execCallback
    \/ respond

Spec == Init /\ [][Next]_vars

----------------------------------------------------------------------------
(* Wildcard matching as the documentation states it, independent of RegExp *)

\* The whole of s matches the wildcard pattern p: * stands for any sequence of
\* characters, ? for exactly one character when qWild, every other character for
\* itself (up to case when ignoreCase).
RECURSIVE WildWhole(_, _, _, _)
WildWhole(p, s, qWild, ignoreCase) ==
    IF p = "" THEN s = ""
    ELSE LET c == Char(p, 1)
             rest == SubSeq(p, 2, Len(p))
         IN  IF c = "*"
             THEN \E k \in 0..Len(s) : WildWhole(rest, SubSeq(s, k + 1, Len(s)), qWild, ignoreCase)
             ELSE /\ s # ""
                  /\ \/ c = "?" /\ qWild
                     \/ IF ignoreCase THEN toLowerCaseChar(c) = toLowerCaseChar(Char(s, 1))
                        ELSE c = Char(s, 1)
                  /\ WildWhole(rest, SubSeq(s, 2, Len(s)), qWild, ignoreCase)

\* Some substring of s matches p.
WildSomewhere(p, s, qWild, ignoreCase) ==
    \E a \in 1..(Len(s) + 1) : \E b \in (a - 1)..Len(s) :
        WildWhole(p, SubSeq(s, a, b), qWild, ignoreCase)

----------------------------------------------------------------------------
(* The remote shell's reading of a synthesized command *)

\* The first position from i on where the command has a character of S, or the
\* position past its end.
nextOf(command, i, S) ==
    LET at == {j \in i..Len(command) : Char(command, j) \in S}
    IN  IF at = {} THEN Len(command) + 1 ELSE CHOOSE j \in at : \A k \in at : j <= k

\* The steps of a command line and the operator that follows each: the line is cut
\* at the ; and && that stand outside quotes and outside { } groups.
RECURSIVE shellSteps(_, _, _, _, _, _)
shellSteps(command, i, quote, depth, start, acc) ==
    LET n == Len(command)
        j == IF quote = "'" THEN nextOf(command, i, {"'"})
             ELSE IF quote = "\"" THEN nextOf(command, i, {"\"", "\\"})
             ELSE nextOf(command, i, {"'", "\"", "\\", "{", "}", ";", "&"})
        c == Char(command, j)
        cut(op) == Append(acc, [text |-> trim(SubSeq(command, start, j - 1)), op |-> op])
    IN  IF j > n
        THEN IF trim(SubSeq(command, start, n)) = "" THEN acc
             ELSE Append(acc, [text |-> trim(SubSeq(command, start, n)), op |-> ""])
        ELSE IF c = "\\" THEN shellSteps(command, j + 2, quote, depth, start, acc)
        ELSE IF quote # "" THEN shellSteps(command, j + 1, "", depth, start, acc)
        ELSE IF c \in {"'", "\""} THEN shellSteps(command, j + 1, c, depth, start, acc)
        ELSE IF c = "{" THEN shellSteps(command, j + 1, quote, depth + 1, start, acc)
        ELSE IF c = "}" THEN shellSteps(command, j + 1, quote, depth - 1, start, acc)
        ELSE IF c = ";" /\ depth = 0
        THEN shellSteps(command, j + 1, quote, depth, j + 1, cut(";"))
        ELSE IF c = "&" /\ depth = 0 /\ j < n /\ Char(command, j + 1) = "&"
        THEN shellSteps(command, j + 2, quote, depth, j + 2, cut("&&"))
        ELSE shellSteps(command, j + 1, quote, depth, start, acc)

shellList(command) == shellSteps(command, 1, "", 0, 1, <<>>)

\* Whether step k of the list runs when the steps in fails exit with a failure: a
\* step after && runs only if every step of its && chain before it succeeded, a step
\* after ; runs whatever came before.
shellRuns(steps, fails, k) ==
    \A j \in 1..(k - 1) : (\A m \in j..(k - 1) : steps[m].op = "&&") => j \notin fails

\* The exit code the shell ends with when the steps in fails exit with 1: the code
\* of the last step that ran.
shellExitCode(steps, fails) ==
    LET ran == {k \in 1..Len(steps) : shellRuns(steps, fails, k)}
        last == CHOOSE k \in ran : \A j \in ran : j <= k
    IN  IF last \in fails THEN "1" ELSE "0"

----------------------------------------------------------------------------
(* sed's reading of the scripts the edits are made of *)

\* The fields of a script between its / delimiters; a backslash takes the character
\* after it along, so that an escaped / does not end a field.
RECURSIVE sedFields(_, _, _, _)
sedFields(script, i, start, acc) ==
    LET n == Len(script)
        j == nextOf(script, i, {"\\", "/"})
    IN  IF j > n THEN Append(acc, SubSeq(script, start, n))
        ELSE IF Char(script, j) = "\\" THEN sedFields(script, j + 2, start, acc)
        ELSE sedFields(script, j + 1, j + 1, Append(acc, SubSeq(script, start, j - 1)))

\* The regular expression of a pattern field: \/ stands for /, every other
\* backslash pair is left to the regular expression.
RECURSIVE sedRegExp(_, _)
sedRegExp(field, i) ==
    LET n == Len(field)
        j == nextOf(field, i, {"\\"})
    IN  IF j > n THEN SubSeq(field, i, n)
        ELSE IF j < n /\ Char(field, j + 1) = "/"
        THEN SubSeq(field, i, j - 1) \o "/" \o sedRegExp(field, j + 2)
        ELSE SubSeq(field, i, IF j < n THEN j + 1 ELSE n) \o sedRegExp(field, j + 2)

\* The text a replacement field puts in place of the matched text: \n is a newline,
\* a backslash before another character gives that character, & alone gives the
\* matched text.
RECURSIVE sedReplacement(_, _, _)
sedReplacement(field, i, matched) ==
    LET n == Len(field)
        j == nextOf(field, i, {"\\", "&"})
    IN  IF j > n THEN SubSeq(field, i, n)
        ELSE IF Char(field, j) = "&"
        THEN SubSeq(field, i, j - 1) \o matched \o sedReplacement(field, j + 1, matched)
        ELSE IF j = n THEN SubSeq(field, i, j - 1)
        ELSE SubSeq(field, i, j - 1)
                 \o (IF Char(field, j + 1) = "n" THEN "\n" ELSE Char(field, j + 1))
                 \o sedReplacement(field, j + 2, matched)

\* The line after s/regexp/replacement/g, for a line that the regular expression
\* matches from its first character to its last or not at all.
sedSubstitute(script, line) ==
    LET fields == sedFields(script, 1, 1, <<>>)
        items == RegExpParse(sedRegExp(fields[2], 1), 1)
    IN  IF Len(line) \in RegExpRun(items, 1, line, {0}, FALSE)
        THEN sedReplacement(fields[3], 1, line)
        ELSE line

\* Whether the address /regexp/ of a script selects the line.
sedSelects(script, line) ==
    LET fields == sedFields(script, 1, 1, <<>>)
    IN  RegExpTest(sedRegExp(fields[2], 1), FALSE, line)

MaxReplacementLen == 3

MatchedText == "old"

ReplacementProbes == StringsOver({"&", "/", "\\", "n", "a", "\n"}, MaxReplacementLen)

InitSedReplacement ==
    /\ ServerIdle
    /\ serverFilter = [allow |-> <<>>, disallow |-> <<>>]
    /\ commandFilter = [allow |-> <<>>, disallow |-> <<>>]
    /\ probe \in [kind : {"sedReplacement"}, replacement : ReplacementProbes]
    /\ out = NoOut

\* The script of a replace by pattern, applied to a line that is the matched text.
ApplySedReplacement ==
    /\ probe.kind = "sedReplacement"
    /\ out = NoOut
    /\ out' = [fn |-> "escapeSedReplacement",
               result |-> sedSubstitute("s/" \o escapeSedPattern(MatchedText) \o "/"
                                            \o escapeSedReplacement(probe.replacement) \o "/g",
                                        MatchedText)]
    /\ UNCHANGED probe
    /\ ServerUnchanged

SpecSedReplacement == InitSedReplacement /\ [][ApplySedReplacement]_vars

SedPatternProbes ==
    StringsOver({"a", ".", "\\"}, MaxPatternLen) \cup {"server.*\\.com", "a/b", "KEY=.*", "^#.*"}

SedLineProbes ==
    StringsOver({"a", ".", "\\"}, MaxSubjectLen)
        \cup {"server1.com", "server1\\xcom", "a/b", "KEY=1", "# c"}

InitSedPattern ==
    /\ ServerIdle
    /\ serverFilter = [allow |-> <<>>, disallow |-> <<>>]
    /\ commandFilter = [allow |-> <<>>, disallow |-> <<>>]
    /\ probe \in [kind : {"sedPattern"}, pattern : SedPatternProbes, line : SedLineProbes]
    /\ out = NoOut

\* The script of a delete by pattern, asked whether it selects the line.
ApplySedPattern ==
    /\ probe.kind = "sedPattern"
    /\ out = NoOut
    /\ out' = [fn |-> "escapeSedPattern",
               result |-> sedSelects("/" \o escapeSedPattern(probe.pattern) \o "/d", probe.line)]
    /\ UNCHANGED probe
    /\ ServerUnchanged

SpecSedPattern == InitSedPattern /\ [][ApplySedPattern]_vars

----------------------------------------------------------------------------
(* The remote shell's run of an edit by line number *)

\* The character of a code of charCodeAt.
fromCharCode(code) ==
    CASE code = 9 -> "\t"
      [] code = 10 -> "\n"
      [] code = 12 -> "\f"
      [] code = 13 -> "\r"
      [] code >= 32 /\ code <= 95 -> Char(AsciiLow, code - 31)
      [] code >= 97 /\ code <= 126 -> Char(AsciiHigh, code - 96)
      [] OTHER -> "?"

\* base64 -d, for an encoding of ASCII text.
RECURSIVE fromBase64(_)
fromBase64(text) ==
    IF Len(text) < 4 THEN ""
    ELSE LET v(k) == IF Char(text, k) = "=" THEN 0 ELSE IndexIn(Base64Alphabet, Char(text, k)) - 1
             w == v(1) * 262144 + v(2) * 4096 + v(3) * 64 + v(4)
         IN  fromCharCode(w \div 65536)
                 \o (IF Char(text, 3) = "=" THEN "" ELSE fromCharCode((w \div 256) % 256))
                 \o (IF Char(text, 4) = "=" THEN "" ELSE fromCharCode(w % 256))
                 \o fromBase64(SubSeq(text, 5, Len(text)))

\* read newline: the first line of the input, where a backslash is dropped and
\* keeps the character after it (a newline after it continues the line), without
\* the white space at its ends.
RECURSIVE shellReadLine(_, _)
shellReadLine(input, i) ==
    LET n == Len(input)
        j == nextOf(input, i, {"\\", "\n"})
    IN  IF j > n THEN SubSeq(input, i, n)
        ELSE IF Char(input, j) = "\n" THEN SubSeq(input, i, j - 1)
        ELSE IF j = n THEN SubSeq(input, i, j - 1)
        ELSE IF Char(input, j + 1) = "\n" THEN SubSeq(input, i, j - 1) \o shellReadLine(input, j + 2)
        ELSE SubSeq(input, i, j - 1) \o Char(input, j + 1) \o shellReadLine(input, j + 2)

shellRead(input) == trim(shellReadLine(input, 1))

\* The text a shell word stands for: what is between single quotes as it is, what
\* is between double quotes with $newline replaced by value.
RECURSIVE shellWord(_, _, _, _)
shellWord(word, i, quote, value) ==
    LET n == Len(word)
        j == IF quote = "'" THEN nextOf(word, i, {"'"})
             ELSE IF quote = "\"" THEN nextOf(word, i, {"\"", "$", "\\"})
             ELSE nextOf(word, i, {"'", "\"", "\\"})
        c == Char(word, j)
        before == SubSeq(word, i, j - 1)
    IN  IF j > n THEN SubSeq(word, i, n)
        ELSE IF quote # "" /\ c = quote THEN before \o shellWord(word, j + 1, "", value)
        ELSE IF c = "$"
        THEN IF SubSeq(word, j, j + 7) = "$newline"
             THEN before \o value \o shellWord(word, j + 8, quote, value)
             ELSE before \o "$" \o shellWord(word, j + 1, quote, value)
        ELSE IF c = "\\"
        THEN before \o (IF j < n THEN Char(word, j + 1) ELSE "") \o shellWord(word, j + 2, quote, value)
        ELSE before \o shellWord(word, j + 1, c, value)

\* The text of an a command: a backslash is dropped and keeps the character after it.
RECURSIVE sedText(_, _)
sedText(text, i) ==
    LET n == Len(text)
        j == nextOf(text, i, {"\\"})
    IN  IF j > n THEN SubSeq(text, i, n)
        ELSE IF j = n THEN SubSeq(text, i, j - 1)
        ELSE SubSeq(text, i, j - 1) \o Char(text, j + 1) \o sedText(text, j + 2)

\* The flags an s command accepts after its last delimiter.
SedFlags == {"g", "p", "i", "I", "m", "M", "e"}

\* sed -i '<expression>' on a file of the given text, for an expression that is a
\* line number and an s or an a command. A script that sed refuses leaves the file
\* as it is.
sedLineEdit(expression, text) ==
    LET lines == split(SubSeq(text, 1, Len(text) - 1), "\n")
        address == digitsValue(expression, 0)
        rest == SubSeq(expression, Len(numberToString(address)) + 1, Len(expression))
        fields == sedFields(rest, 1, 1, <<>>)
        line == lines[address]
        items == RegExpParse(sedRegExp(fields[2], 1), 1)
        appended == SubSeq(rest, 3, Len(rest))
        put(k) == IF k # address THEN lines[k] \o "\n"
                  ELSE IF Char(rest, 1) = "s"
                  THEN (IF Len(line) \in RegExpRun(items, 1, line, {0}, FALSE)
                        THEN sedReplacement(fields[3], 1, line) ELSE line) \o "\n"
                  ELSE line \o "\n" \o (IF appended = "" THEN "" ELSE sedText(appended, 1) \o "\n")
    IN  IF address \notin 1..Len(lines) THEN text
        ELSE IF Char(rest, 1) = "s"
                /\ (Len(fields) # 4 \/ \E k \in 1..Len(fields[4]) : Char(fields[4], k) \notin SedFlags)
        THEN text
        ELSE ConcatRange(put, 1, Len(lines))

\* The file after the command of an edit by line number has run:
\* echo '<base64>' | base64 -d | { read newline; sed -i <word> "<file>"; }
lineEditRun(command, filePath, text) ==
    LET open == nextOf(command, 1, {"'"})
        close == nextOf(command, open + 1, {"'"})
        newline == shellRead(fromBase64(SubSeq(command, open + 1, close - 1)))
        head == "' | base64 -d | { read newline; sed -i "
        tail == " \"" \o filePath \o "\"; }"
        word == SubSeq(command, close + Len(head), Len(command) - Len(tail))
    IN  IF SubSeq(command, close, close + Len(head) - 1) = head
           /\ SubSeq(command, Len(command) - Len(tail) + 1, Len(command)) = tail
        THEN sedLineEdit(shellWord(word, 1, "", newline), text)
        ELSE text

MaxContentLen == 3

TargetText == "one\ntwo\nthree\n"

ContentProbes ==
    StringsOver({"z", "/", "&", "\\", "\n"}, MaxContentLen)
        \cup {"x=1", " pad", "l1\nl2", "x/y", "x&y", "z/g"}

InitLineEdit ==
    /\ phase = "probe"
    /\ env = NoEnv
    /\ fs = NoFiles
    /\ sshHosts = [alias \in {"x"} |-> [host |-> alias]]
    /\ stack = <<>>
    /\ declared = <<>>
    /\ req = NoReq
    /\ child = NoChild
    /\ outcome = NoOutcome
    /\ serverFilter = [allow |-> <<>>, disallow |-> <<>>]
    /\ commandFilter = [allow |-> <<>>, disallow |-> <<>>]
    /\ probe \in [kind : {"lineEdit"}, operation : {"replace", "insert"}, content : ContentProbes]
    /\ out = NoOut

\* editFile for line 2 of the target on a registered host, and the run of its
\* command on the target.
ApplyLineEdit ==
    /\ probe.kind = "lineEdit"
    /\ out = NoOut
    /\ LET plan == editFile("x", RemoteFile, probe.operation, Number(2), probe.content,
                            Undefined, FALSE)
       IN  out' = [fn |-> "editFile", command |-> plan.command,
                   result |-> lineEditRun(plan.command, RemoteFile, TargetText)]
    /\ UNCHANGED probe
    /\ ServerUnchanged

SpecLineEdit == InitLineEdit /\ [][ApplyLineEdit]_vars

----------------------------------------------------------------------------
(* loadServerFilter and loadCommandFilter on every shape of the four inputs *)

\* The values one of the environment variables is given.
PolicyInputs == {Unset, BadJson, NotArray, ArrayOf(<<"a*">>), ArrayOf(<<"prod-*", "b?">>)}

InitPolicyInputs ==
    /\ ServerIdle
    /\ serverFilter = [allow |-> <<>>, disallow |-> <<>>]
    /\ commandFilter = [allow |-> <<>>, disallow |-> <<>>]
    /\ probe \in [kind : {"policyInputs"},
                  env : [SSH_MCP_ALLOW : PolicyInputs, SSH_MCP_DISALLOW : PolicyInputs,
                         SSH_MCP_COMMAND_ALLOW : PolicyInputs,
                         SSH_MCP_COMMAND_DISALLOW : PolicyInputs]]
    /\ out = NoOut

ApplyLoadServerFilter ==
    /\ probe.kind = "policyInputs"
    /\ out = NoOut
    /\ out' = [fn |-> "loadServerFilter", result |-> loadServerFilter(probe.env)]
    /\ UNCHANGED probe
    /\ ServerUnchanged

ApplyLoadCommandFilter ==
    /\ probe.kind = "policyInputs"
    /\ out = NoOut
    /\ out' = [fn |-> "loadCommandFilter", result |-> loadCommandFilter(probe.env)]
    /\ UNCHANGED probe
    /\ ServerUnchanged

NextPolicyInputs == ApplyLoadServerFilter \/ ApplyLoadCommandFilter

SpecPolicyInputs == InitPolicyInputs /\ [][NextPolicyInputs]_vars

----------------------------------------------------------------------------
(* loadSSHConfig on inventories whose Include directives form a cycle *)

\* A root file that includes a plain file and then itself.
SelfIncludingConfig ==
    "Host a\n  HostName 1.1.1.1\nInclude extra.conf\nInclude config\nHost b\n  HostName 2.2.2.2\n"

\* A root file and an included file that include each other.
MutualRootConfig ==
    "Host a\n  HostName 1.1.1.1\nInclude config.d/*.conf\nHost b\n"

MutualIncludedConfig ==
    "Host x\n  User alice\nInclude /home/u/.ssh/config\n"

CyclicFileSystems == {
    [path \in {"/home/u/.ssh/config", "/home/u/.ssh/extra.conf"} |->
        IF path = "/home/u/.ssh/config" THEN SelfIncludingConfig
        ELSE "Host z\n  HostName 4.4.4.4"],
    [path \in {"/home/u/.ssh/config", "/home/u/.ssh/config.d/a.conf"} |->
        IF path = "/home/u/.ssh/config" THEN MutualRootConfig
        ELSE MutualIncludedConfig] }

InitIncludeCycle ==
    /\ phase = "start"
    /\ env \in Environments
    /\ fs \in CyclicFileSystems \cup FileSystems
    /\ serverFilter = loadServerFilter(env)
    /\ commandFilter = loadCommandFilter(env)
    /\ sshHosts = NoHosts
    /\ stack = <<>>
    /\ declared = <<>>
    /\ req = NoReq
    /\ child = NoChild
    /\ outcome = NoOutcome
    /\ probe = NoProbe
    /\ out = NoOut

NextIncludeCycle ==
    \/ loadSSHConfig
    \/ parseSSHConfigLine
    \/ handleInclude
    \/ parseSSHConfigReturn

SpecIncludeCycle == InitIncludeCycle /\ [][NextIncludeCycle]_vars

----------------------------------------------------------------------------
(* Claims *)

\* C1: disallow has absolute precedence. For the host policy and for the command
\* policy, whatever the allow list, a subject that matches at least one disallow
\* pattern is rejected, even when it also matches an allow pattern.
C1_DisallowPrecedence ==
    /\ (out.fn = "isHostAllowed"
          /\ \E i \in DOMAIN serverFilter.disallow :
                 matchesPattern(probe.subject, serverFilter.disallow[i]))
        => ~out.allowed
    /\ (out.fn = "isCommandAllowed"
          /\ CommandHits(collapseWhiteSpace(trim(probe.subject)), commandFilter.disallow) # {})
        => ~out.allowed

\* C1 witness: a subject that matches both an allow and a disallow pattern has
\* been evaluated by each policy and rejected.
C1_Witness ==
    /\ out.fn \in {"isHostAllowed", "isCommandAllowed"}
    /\ probe.subject = "ab"
    /\ serverFilter.allow = <<"a*">>
    /\ serverFilter.disallow = <<"b?", "*b">>
    /\ ~out.allowed

C8_CommandPatternSemantics ==
    out.fn = "matchesCommandPattern"
        => (out.result <=>
                WildSomewhere(probe.pattern, collapseWhiteSpace(trim(probe.command)), TRUE, TRUE))

\* C8 witness: a pattern with a literal dot and a wildcard has matched inside a
\* command written in the other case.
C8_Witness ==
    /\ out.fn = "matchesCommandPattern"
    /\ probe.pattern = "a.*"
    /\ probe.command = " A."
    /\ out.result

\* C9: a host identifier matches a host pattern exactly when the whole identifier
\* matches it case-sensitively, with * for zero or more characters and every other
\* character, ? and . included, for itself; prod-* matches prod-db and does not
\* match dev-db, my-prod-db or PROD-db.
C9_HostPatternSemantics ==
    out.fn = "matchesPattern"
        => /\ out.result <=> WildWhole(probe.pattern, probe.hostname, FALSE, FALSE)
           /\ probe.pattern = "prod-*"
                 => /\ probe.hostname = "prod-db" => out.result
                    /\ probe.hostname \in {"dev-db", "my-prod-db", "PROD-db"} => ~out.result

\* C9 witness: prod-* has been tried on my-prod-db and did not match.
C9_Witness ==
    /\ out.fn = "matchesPattern"
    /\ probe.pattern = "prod-*"
    /\ probe.hostname = "my-prod-db"
    /\ ~out.result

\* The tools whose handler sends a command text to the remote host: command and
\* script execution, file edit, rewrite and append, service control, log query
\* and bulk transfer.
CommandTools == {
    "ssh_execute_command", "ssh_execute_script", "ssh_edit_file", "ssh_rewrite_file",
    "ssh_append_to_file", "ssh_systemctl", "ssh_restart_nginx", "ssh_journalctl",
    "ssh_service_logs", "ssh_bulk_transfer" }

DefaultPolicy == commandFilter = loadCommandFilter(NoEnv)

\* C3: whenever one of the command-sending tools has started an external process,
\* its handler first passed a text to isCommandAllowed, and every text it passed
\* was allowed.
C3_DispatchOnlyAfterApproval ==
    (req # NoReq /\ req.tool \in CommandTools /\ child # NoChild)
        => /\ req.evaluated # <<>>
           /\ \A i \in DOMAIN req.evaluated : isCommandAllowed(req.evaluated[i]).allowed

\* C4: a request of a host-addressed tool for an alias that is not in the registry
\* has started no process and is rejected, with "not allowed by server access
\* filters" when isHostAllowed rejects the alias and with "not found in SSH
\* config" when it permits it.
C4_AbsentAliasFails ==
    (req # NoReq /\ req.tool # "ssh_list_hosts" /\ req.host \notin DOMAIN sshHosts)
        => /\ child = NoChild
           /\ outcome.kind = "rejected"
           /\ outcome.error =
                  IF isHostAllowed(req.host)
                  THEN "Host '" \o req.host \o "' not found in SSH config"
                  ELSE "Host '" \o req.host \o "' is not allowed by server access filters"

\* C4 witness: an edit of a file on prod-db, whose stanza the host policy kept out
\* of the registry, is rejected as not allowed without a process.
C4_Witness ==
    /\ req # NoReq
    /\ req.tool = "ssh_edit_file"
    /\ req.host = "prod-db"
    /\ "dev-db" \in DOMAIN sshHosts
    /\ "prod-db" \notin DOMAIN sshHosts
    /\ child = NoChild
    /\ outcome.kind = "rejected"
    /\ includes(outcome.error, "not allowed by server access filters")

\* C5: a script for a registered host is dispatched exactly when every line that,
\* trimmed, is not empty and starts neither with # nor with "echo " is allowed by
\* isCommandAllowed; otherwise nothing is dispatched and the rejection quotes the
\* first such line that is not allowed, with the reason given for it.
C5_ScriptLinesChecked ==
    (req # NoReq /\ req.tool = "ssh_execute_script" /\ req.host \in DOMAIN sshHosts)
        => LET lines == scriptLines(req.args.script)
               refused == {i \in DOMAIN lines : ~isCommandAllowed(lines[i]).allowed}
               first == CHOOSE i \in refused : \A j \in refused : i <= j
           IN  IF refused = {}
               THEN /\ child # NoChild
                    /\ child.command = "echo '" \o toBase64(req.args.script) \o "' | base64 -d | "
                                           \o req.args.interpreter
               ELSE /\ child = NoChild
                    /\ outcome.kind = "rejected"
                    /\ outcome.error = "Script contains disallowed command: \"" \o lines[first]
                                           \o "\". " \o isCommandAllowed(lines[first]).reason

\* C5 witness: under the default policy the script whose second line is
\* "  rm -rf /tmp/x" is rejected naming that line trimmed, and nothing runs.
C5_Witness ==
    /\ req # NoReq
    /\ req.tool = "ssh_execute_script"
    /\ req.host = "dev-db"
    /\ req.host \in DOMAIN sshHosts
    /\ DefaultPolicy
    /\ req.args.script = "ls\n  rm -rf /tmp/x\nhistory -c"
    /\ child = NoChild
    /\ outcome.kind = "rejected"
    /\ includes(outcome.error, "Script contains disallowed command: \"rm -rf /tmp/x\". ")

PowerCommands == {"shutdown -h now", "reboot", "halt", "poweroff"}

\* C6: under the default command policy a request to execute shutdown -h now,
\* reboot, halt or poweroff on a registered host is rejected and starts nothing.
C6_PowerCommandsRejected ==
    (req # NoReq /\ req.tool = "ssh_execute_command" /\ req.host \in DOMAIN sshHosts
         /\ DefaultPolicy /\ req.args.command \in PowerCommands)
        => /\ child = NoChild
           /\ outcome.kind = "rejected"

RmCase ==
    /\ req # NoReq
    /\ req.tool = "ssh_execute_command"
    /\ req.host \in DOMAIN sshHosts
    /\ DefaultPolicy
    /\ req.args.command = "rm -rf /var/tmp/x"

\* C7 as stated: rm -rf /var/tmp/x under the default command policy is rejected
\* with a reason that refers to the pattern rm -rf *.
C7_ReasonNamesRmRf ==
    RmCase => /\ child = NoChild
              /\ outcome.kind = "rejected"
              /\ includes(outcome.error, "rm -rf *")

\* C7: rm -rf /var/tmp/x under the default command policy is rejected, nothing is
\* started, and the reason names the first pattern of the default list that the
\* command matches, which is rm *.
C7_ReasonNamesFirstMatch ==
    RmCase => /\ child = NoChild
              /\ outcome.kind = "rejected"
              /\ outcome.error =
                     "Command blocked by security policy. Matches disallowed pattern: 'rm *'"

\* C7 witness: the request for rm -rf /var/tmp/x on dev-db under the default
\* policy has been rejected.
C7_Witness ==
    /\ RmCase
    /\ req.host = "dev-db"
    /\ outcome.kind = "rejected"

\* C10: every alias of the registry is permitted by isHostAllowed and keys the
\* stanza that bears it, while the configuration is loaded and ever after.
C10_RegistryPermitted ==
    \A alias \in DOMAIN sshHosts :
        /\ isHostAllowed(alias)
        /\ sshHosts[alias].host = alias

\* C10 witness: loading is over, the configuration had a stanza for prod-db and
\* one for prod-web in an included file, the policy disallows prod-*, and the
\* registry holds dev-db and x but neither of them.
C10_Witness ==
    /\ phase = "serving"
    /\ fs # NoFiles
    /\ serverFilter.disallow = <<"prod-*">>
    /\ {"dev-db", "x"} \subseteq DOMAIN sshHosts
    /\ "prod-db" \notin DOMAIN sshHosts
    /\ "prod-web" \notin DOMAIN sshHosts

\* The stanza that a Host line opens, read from the text of its file alone: the
\* alias of the line and the directives below it up to the next Host line of the
\* file, comments, blank lines and Include lines apart.
RECURSIVE stanzaFrom(_, _, _)
stanzaFrom(lines, i, host) ==
    IF i > Len(lines) THEN host
    ELSE LET line == trim(lines[i])
         IN  IF line = "" \/ startsWith(line, "#") \/ startsWith(toLowerCase(line), "include ")
             THEN stanzaFrom(lines, i + 1, host)
             ELSE IF toLowerCase(lineKey(line)) = "host" THEN host
             ELSE IF lineValue(line) = "" THEN stanzaFrom(lines, i + 1, host)
             ELSE stanzaFrom(lines, i + 1, setProperty(host, lineKey(line), lineValue(line)))

aliasAt(d) == lineValue(trim(split(fs[d[1]], "\n")[d[2]]))

stanzaAt(d) == stanzaFrom(split(fs[d[1]], "\n"), d[2] + 1, [host |-> aliasAt(d)])

\* The place in `declared` of the last Host line read for alias.
lastDeclared(alias) ==
    CHOOSE k \in DOMAIN declared :
        /\ aliasAt(declared[k]) = alias
        /\ \A j \in DOMAIN declared : aliasAt(declared[j]) = alias => j <= k

\* C11: once loading is over, the entry of each alias equals the stanza of the
\* last Host line that was read for that alias, in one file or across includes,
\* with no property of an earlier stanza.
C11_LastStanzaWins ==
    phase = "serving"
        => \A alias \in DOMAIN sshHosts :
               sshHosts[alias] = stanzaAt(declared[lastDeclared(alias)])

RootPath == "/home/u/.ssh/config"

\* The files that the Include lines of file f name and that can be read.
includeTargets(f) ==
    LET lines == split(fs[f], "\n")
        named(i) ==
            LET line == trim(lines[i])
                fullPath == includeFullPath(trim(SubSeq(line, 9, Len(line))), f)
            IN  IF ~startsWith(toLowerCase(line), "include ") THEN {}
                ELSE IF includes(fullPath, "*") THEN {g \in DOMAIN fs : minimatch(fullPath, g)}
                ELSE {fullPath}
    IN  {resolveFile(fs, g) : g \in UNION {named(i) : i \in DOMAIN lines}} \ {""}

\* The files reached from the files of S through at most n includes.
RECURSIVE reachedFrom(_, _)
reachedFrom(S, n) ==
    IF n = 0 THEN S ELSE reachedFrom(S \cup UNION {includeTargets(f) : f \in S}, n - 1)

hostLines(f) ==
    LET lines == split(fs[f], "\n")
    IN  {i \in DOMAIN lines : startsWith(toLowerCase(trim(lines[i])) \o " ", "host ")}

\* What loading leaves behind: with no root file an empty registry, and otherwise
\* every Host line of the root file and of every readable file reached through
\* includes has been read, with its alias in the registry if the host policy
\* permits it.
LoadedAll ==
    IF resolveFile(fs, RootPath) = "" THEN sshHosts = NoHosts
    ELSE \A f \in reachedFrom({RootPath}, MaxDepth) : \A i \in hostLines(f) :
             /\ \E k \in DOMAIN declared : declared[k] = <<f, i>>
             /\ isHostAllowed(aliasAt(<<f, i>>)) => aliasAt(<<f, i>>) \in DOMAIN sshHosts

\* Loading has a next step: a call of parseSSHConfig is active, and it reads its
\* next line, returns, or takes up the next file of the include it waits for,
\* readable or not.
LoadingGoesOn ==
    /\ stack # <<>>
    /\ Top.pending # <<>>
          => (resolveFile(fs, Head(Top.pending)) = "" \/ Len(stack) < MaxDepth)

\* C12: loading never stops short, whatever files are missing: while it lasts it
\* has a next step; when it is over, with no root file the registry is empty, and a
\* missing or unreadable include target has cost no host declared before it, after
\* it or in the other include targets.
C12_LoadingDegrades ==
    /\ phase = "loading" => LoadingGoesOn
    /\ (phase = "serving" /\ req = NoReq) => LoadedAll

\* C12 witness: the wildcard include matched a directory, which cannot be read,
\* and a.conf; loading is over, the stanza of a.conf was read and x and y, declared
\* before and after the include, are registered.
C12_Witness ==
    /\ phase = "serving"
    /\ "/home/u/.ssh/config.d/old" \in DOMAIN fs
    /\ \E k \in DOMAIN declared : declared[k][1] = "/home/u/.ssh/config.d/a.conf"
    /\ {"x", "y"} \subseteq DOMAIN sshHosts

\* The readable files that the Include lines of file f whose path starts with ~
\* name when ~ stands for the home directory, whatever directory f is in.
homeIncludeTargets(f) ==
    LET lines == split(fs[f], "\n")
        named(i) ==
            LET line == trim(lines[i])
                includePath == trim(SubSeq(line, 9, Len(line)))
                underHome == homedir \o SubSeq(includePath, 2, Len(includePath))
            IN  IF ~(startsWith(toLowerCase(line), "include ") /\ startsWith(includePath, "~/"))
                THEN {}
                ELSE IF includes(underHome, "*")
                THEN {g \in DOMAIN fs : minimatch(underHome, g)}
                ELSE {underHome}
    IN  {resolveFile(fs, g) : g \in UNION {named(i) : i \in DOMAIN lines}} \ {""}

\* C13: once loading is over, every readable file that an Include line starting
\* with ~ names under the home directory, in the root file or in a file read
\* through includes, has been read: its Host lines are among those read.
C13_TildeInclude ==
    (phase = "serving" /\ req = NoReq /\ resolveFile(fs, RootPath) # "")
        => \A f \in {RootPath} \cup {declared[k][1] : k \in DOMAIN declared} :
               \A g \in homeIncludeTargets(f) : \A i \in hostLines(g) :
                   \E k \in DOMAIN declared : declared[k] = <<g, i>>

\* A request to edit a file on a registered host.
EditCase ==
    /\ req # NoReq
    /\ req.tool = "ssh_edit_file"
    /\ req.host \in DOMAIN sshHosts

\* The edit lacks a field that its kind requires, or its kind is unknown.
LacksFields(edit) ==
    CASE edit.operation = "replace" ->
             edit.content = Undefined \/ (~edit.lineNumber.given /\ edit.pattern = Undefined)
      [] edit.operation = "insert" -> ~edit.lineNumber.given \/ edit.content = Undefined
      [] edit.operation = "delete" -> ~edit.lineNumber.given /\ edit.pattern = Undefined
      [] OTHER -> TRUE

ValidationErrors == {
    "Replace operation requires either lineNumber or pattern, and content",
    "Insert operation requires lineNumber and content",
    "Delete operation requires either lineNumber or pattern" }

\* C14: an edit that lacks a field its kind requires, or whose kind is unknown,
\* is rejected with the validation error of its kind and starts no process.
C14_IncompleteEditRejected ==
    (EditCase /\ LacksFields(req.args))
        => /\ child = NoChild
           /\ outcome.kind = "rejected"
           /\ outcome.error \in ValidationErrors \cup {"Unknown operation: " \o req.args.operation}

\* C14 witness: a replace that has content but neither lineNumber nor pattern has
\* been rejected.
C14_Witness ==
    /\ EditCase
    /\ req.args.operation = "replace"
    /\ req.args.content = "new"
    /\ ~req.args.lineNumber.given
    /\ req.args.pattern = Undefined
    /\ child = NoChild
    /\ outcome.kind = "rejected"
    /\ outcome.error = "Replace operation requires either lineNumber or pattern, and content"

\* C15: a replace that gives both a lineNumber and a pattern is rejected and starts
\* no process.
C15_ReplaceBothRejected ==
    (EditCase /\ req.args.operation = "replace" /\ req.args.lineNumber.given
         /\ req.args.pattern # Undefined)
        => /\ child = NoChild
           /\ outcome.kind = "rejected"

\* The edit is addressed by pattern: a replace or a delete that has a pattern, and
\* no line number to take precedence over it.
PatternAddressed(edit) ==
    /\ ~truthyNumber(edit.lineNumber)
    /\ edit.pattern # Undefined /\ edit.pattern # ""
    /\ \/ edit.operation = "replace" /\ edit.content # Undefined
       \/ edit.operation = "delete"

\* The characters the specification counts as shell-significant: quotes, dollar,
\* backslash, parentheses, braces, pipe, semicolon, angle brackets, the glob
\* characters and tilde (the backquote is not among the characters of the texts).
ShellSignificant ==
    {"'", "\""} \cup {"$", "\\"} \cup {"(", ")"} \cup {"{", "}"} \cup {"|", ";"}
        \cup {"<", ">"} \cup {"*", "?", "[", "]"} \cup {"~"}

\* The text holds a shell-significant character, a newline or a character that is
\* not ASCII.
Delicate(text) ==
    \E i \in 1..Len(text) :
        \/ Char(text, i) \in ShellSignificant
        \/ Char(text, i) = "\n"
        \/ ~(\E j \in 1..Len(AsciiLow) : Char(AsciiLow, j) = Char(text, i))
           /\ ~(\E j \in 1..Len(AsciiHigh) : Char(AsciiHigh, j) = Char(text, i))
           /\ Char(text, i) \notin {"\t", "\f", "\r"}

ScriptFileForm(command) ==
    /\ includes(command, "' | base64 -d > /tmp/sed_script_$$ && sed -i -f /tmp/sed_script_$$ \"")
    /\ ~includes(command, "sed -i '")

DirectForm(command) ==
    /\ includes(command, "sed -i 's/") \/ includes(command, "sed -i '/")
    /\ ~includes(command, "base64")

\* C16: an edit addressed by pattern is dispatched in the script-file form exactly
\* when its pattern or its content (empty for a delete) holds a shell-significant
\* character, a newline or a non-ASCII character, and in the direct form otherwise.
C16_EncodingDecision ==
    (EditCase /\ PatternAddressed(req.args))
        => /\ child # NoChild
           /\ LET content == IF req.args.operation = "delete" THEN "" ELSE req.args.content
              IN  IF Delicate(req.args.pattern) \/ Delicate(content)
                  THEN ScriptFileForm(child.command)
                  ELSE DirectForm(child.command)

\* C16 witness: the replace of PRICE=\$[0-9]+ by a text with a single quote has been
\* dispatched in the script-file form.
C16_Witness ==
    /\ EditCase
    /\ req.args.operation = "replace"
    /\ req.args.pattern = "PRICE=\\$[0-9]+"
    /\ req.args.content = "it's"
    /\ child # NoChild
    /\ ScriptFileForm(child.command)

\* A plain replace by pattern has been dispatched in the direct form.
DirectFormReached ==
    /\ EditCase
    /\ req.args.pattern = "a.b"
    /\ child # NoChild
    /\ DirectForm(child.command)

\* An edit of the target has been dispatched.
EditDispatched == EditCase /\ child # NoChild

BackupRequested == ~req.args.backup.given \/ req.args.backup.v

IsCopyStep(step) == startsWith(step.text, "cp ")

IsEditStep(step) == includes(step.text, "sed -i ")

\* C17: with a backup requested the command of an edit begins with the test for the
\* target, then the copy to <target>.bak that runs only if the test succeeds, and
\* every edit step comes after them and runs whether or not the copy ran; with no
\* backup requested no step of the command is a copy.
C17_BackupFirst ==
    EditDispatched =>
        LET steps == shellList(child.command)
            edits == {k \in 1..Len(steps) : IsEditStep(steps[k])}
        IN  /\ edits # {}
            /\ IF BackupRequested
               THEN /\ Len(steps) >= 3
                    /\ steps[1] = [text |-> "[ -f \"" \o RemoteFile \o "\" ]", op |-> "&&"]
                    /\ steps[2] = [text |-> "cp \"" \o RemoteFile \o "\" \"" \o RemoteFile \o ".bak\"",
                                   op |-> ";"]
                    /\ \A k \in 1..Len(steps) : IsCopyStep(steps[k]) => k = 2
                    /\ \A k \in edits : k > 2
                    /\ ~shellRuns(steps, {1}, 2)
                    /\ shellRuns(steps, {}, 2)
                    /\ \A k \in edits : shellRuns(steps, {1}, k) /\ shellRuns(steps, {2}, k)
               ELSE \A k \in 1..Len(steps) : ~IsCopyStep(steps[k]) /\ ~includes(steps[k].text, ".bak")

\* C17 witness: a replace by pattern asked for with backup true has been dispatched
\* with the backup steps first.
C17_Witness ==
    /\ EditDispatched
    /\ req.args.backup = Given(TRUE)
    /\ req.args.operation = "replace"
    /\ req.args.pattern = "a.b"
    /\ startsWith(child.command, "[ -f \"/etc/app/app.conf\" ] && cp \"/etc/app/app.conf\" \"/etc/app/app.conf.bak\"; sed -i 's/a.b/")

\* An edit asked for with backup false has been dispatched.
NoBackupReached == EditDispatched /\ req.args.backup = Given(FALSE)

\* The edit is dispatched on the script-file path.
ScriptFilePath ==
    /\ EditDispatched
    /\ PatternAddressed(req.args)
    /\ needsBase64Encoding(req.args.pattern,
                           IF req.args.operation = "delete" THEN "" ELSE req.args.content)

IsDecodeStep(step) ==
    /\ startsWith(step.text, "echo '")
    /\ includes(step.text, "' | base64 -d > /tmp/sed_script_$$")

IsApplyStep(step) == step.text = "sed -i -f /tmp/sed_script_$$ \"" \o RemoteFile \o "\""

IsRemoveStep(step) == step.text = "rm -f /tmp/sed_script_$$"

\* C18: on the script-file path the command decodes the script into the temporary
\* file, then applies it, then removes the file; the apply step runs only if the
\* decode succeeded, and the removal runs whichever steps fail.
C18_CleanupAlways ==
    ScriptFilePath =>
        LET steps == shellList(child.command)
            n == Len(steps)
        IN  /\ n >= 3
            /\ IsDecodeStep(steps[n - 2]) /\ steps[n - 2].op = "&&"
            /\ IsApplyStep(steps[n - 1])
            /\ IsRemoveStep(steps[n])
            /\ \A k \in 1..(n - 3) : ~IsDecodeStep(steps[k]) /\ ~IsApplyStep(steps[k])
                                        /\ ~IsRemoveStep(steps[k])
            /\ \A fails \in SUBSET (1..n) :
                  /\ shellRuns(steps, fails, n - 2)
                  /\ shellRuns(steps, fails, n - 1) <=> (n - 2) \notin fails
                  /\ shellRuns(steps, fails, n)

\* C18 witness: a delete by a pattern with a wildcard has been dispatched with the
\* three steps, and the removal runs when the apply step fails.
C18_Witness ==
    /\ ScriptFilePath
    /\ req.args.operation = "delete"
    /\ req.args.pattern = "a*"
    /\ req.args.backup = Given(FALSE)
    /\ LET steps == shellList(child.command)
       IN  /\ Len(steps) = 3
           /\ IsApplyStep(steps[2])
           /\ IsRemoveStep(steps[3])
           /\ shellRuns(steps, {2}, 3)

\* C19: for a replacement text with an ampersand, a slash or a backslash, the
\* substitution made of the escaped text, applied to a line that is the matched
\* text, leaves exactly the replacement text.
C19_ReplacementRoundTrip ==
    (/\ out # NoOut
     /\ out.fn = "escapeSedReplacement"
     /\ \E c \in {"&", "/", "\\"} : includes(probe.replacement, c))
        => out.result = probe.replacement

\* C19 witness: the text \&/ has come back from the substitution.
C19_Witness ==
    /\ out # NoOut
    /\ out.fn = "escapeSedReplacement"
    /\ probe.replacement = "\\&/"
    /\ escapeSedReplacement(probe.replacement) = "\\\\\\&\\/"
    /\ out.result = "\\&/"

\* C20: for every pattern, the escaped pattern between / delimiters selects the
\* lines that the pattern itself, read as a regular expression, matches.
C20_PatternSemanticsKept ==
    (out # NoOut /\ out.fn = "escapeSedPattern")
        => (out.result <=> RegExpTest(probe.pattern, FALSE, probe.line))

\* C21: an edit by line number carries its content through base64, and its command
\* leaves the content in place of line N (replace) or directly after line N
\* (insert), whatever the content.
C21_LineEditKeepsContent ==
    (out # NoOut /\ out.fn = "editFile")
        => /\ startsWith(out.command, "echo '" \o toBase64(probe.content) \o "' | base64 -d | ")
           /\ out.result = IF probe.operation = "replace"
                           THEN "one\n" \o probe.content \o "\nthree\n"
                           ELSE "one\ntwo\n" \o probe.content \o "\nthree\n"

\* A plain one-line content has replaced line 2.
PlainLineReplaced ==
    /\ out # NoOut
    /\ out.fn = "editFile"
    /\ probe.operation = "replace"
    /\ probe.content = "x=1"
    /\ out.result = "one\nx=1\nthree\n"

\* The kinds of operation the timeout is said to govern.
GovernedTools ==
    {"ssh_execute_command", "ssh_execute_script", "ssh_edit_file", "ssh_rewrite_file",
     "ssh_append_to_file", "ssh_read_file", "ssh_systemctl"}

\* C22: every operation that has started an external process has a timer on it, so
\* that a process that does not finish is signalled and the operation fails.
C22_TimerOnEveryProcess ==
    (req # NoReq /\ req.tool \in GovernedTools /\ child # NoChild) => child.timer # "none"

\* A command has been dispatched with its timer armed.
TimerArmedReached ==
    /\ req # NoReq
    /\ req.tool = "ssh_execute_command"
    /\ child # NoChild
    /\ child.timer = "armed"

\* C23: a request is handled only once loading has completed, and from then on no
\* step changes the host registry or either policy list.
C23_ServingAfterLoadingFrozen ==
    /\ [](req # NoReq => phase = "serving")
    /\ [][phase = "serving" => /\ phase' = "serving"
                               /\ sshHosts' = sshHosts
                               /\ serverFilter' = serverFilter
                               /\ commandFilter' = commandFilter]_vars

\* C23 witness: on a loaded registry a request has been rejected by the command
\* policy.
C23_Witness ==
    /\ phase = "serving"
    /\ DOMAIN sshHosts # {}
    /\ req # NoReq
    /\ req.tool = "ssh_execute_command"
    /\ req.host \in DOMAIN sshHosts
    /\ outcome.kind = "rejected"

\* C24: the result of an operation that reports an encoding reports base64 when
\* its command was carried through base64 and plain when it was sent as it is.
C24_EncodingReported ==
    (req # NoReq /\ child # NoChild /\ outcome.kind = "resolved" /\ req.encoding # "none")
        => req.encoding = IF includes(child.command, "| base64 -d") THEN "base64" ELSE "plain"

\* A command sent as it is has been reported as plain.
PlainReported ==
    /\ req # NoReq
    /\ req.tool = "ssh_execute_command"
    /\ child # NoChild
    /\ outcome.kind = "resolved"
    /\ ~includes(child.command, "| base64 -d")
    /\ req.encoding = "plain"

\* The list an input stands for: its array if it is one, the fallback if it is
\* absent or malformed.
OwnFallback(input, fallback) == IF input.kind = "array" THEN input.list ELSE fallback

\* C25: each of the four lists is the array of its own input, or its own fallback
\* when that input is absent or malformed, whatever the other inputs are.
C25_EachInputFallsBackAlone ==
    /\ (out # NoOut /\ out.fn = "loadServerFilter")
           => /\ out.result.allow = OwnFallback(probe.env.SSH_MCP_ALLOW, <<>>)
              /\ out.result.disallow = OwnFallback(probe.env.SSH_MCP_DISALLOW, <<>>)
    /\ (out # NoOut /\ out.fn = "loadCommandFilter")
           => /\ out.result.allow = OwnFallback(probe.env.SSH_MCP_COMMAND_ALLOW, <<>>)
              /\ out.result.disallow = OwnFallback(probe.env.SSH_MCP_COMMAND_DISALLOW,
                                                   defaultDangerousCommands)

\* An allow input that is not an array has left the disallow list in force.
NotArrayKeepsDisallow ==
    /\ out # NoOut
    /\ out.fn = "loadServerFilter"
    /\ probe.env.SSH_MCP_ALLOW = NotArray
    /\ probe.env.SSH_MCP_DISALLOW = ArrayOf(<<"prod-*", "b?">>)
    /\ out.result = [allow |-> <<>>, disallow |-> <<"prod-*", "b?">>]

\* The texts, as sequences of lines, that the lines from i on of a file stand for
\* when each Include line is replaced by the lines of the files it names and that
\* can be read, in one of the orders the wildcard expansion can give them.
RECURSIVE inlinedLines(_, _, _, _)
RECURSIVE inlinedFiles(_, _, _)
inlinedLines(lines, i, basePath, depth) ==
    IF i > Len(lines) THEN {<<>>}
    ELSE LET line == trim(lines[i])
             fullPath == includeFullPath(trim(SubSeq(line, 9, Len(line))), basePath)
             here == IF ~startsWith(toLowerCase(line), "include ") \/ startsWith(line, "#")
                     THEN {<<lines[i]>>}
                     ELSE IF includes(fullPath, "*")
                     THEN UNION {inlinedFiles(order, 1, depth) : order \in globResults(fs, fullPath)}
                     ELSE inlinedFiles(<<fullPath>>, 1, depth)
         IN  {h \o t : h \in here, t \in inlinedLines(lines, i + 1, basePath, depth)}

inlinedFiles(order, k, depth) ==
    IF k > Len(order) THEN {<<>>}
    ELSE LET file == resolveFile(fs, order[k])
             here == IF file = "" \/ depth >= MaxDepth THEN {<<>>}
                     ELSE inlinedLines(split(fs[file], "\n"), 1, file, depth + 1)
         IN  {h \o t : h \in here, t \in inlinedFiles(order, k + 1, depth)}

\* The registry parseSSHConfig builds from lines that hold no Include.
RECURSIVE parsedFrom(_, _, _, _)
parsedFrom(lines, i, hosts, currentHost) ==
    IF i > Len(lines) THEN commitHost(hosts, currentHost)
    ELSE LET line == trim(lines[i])
             key == lineKey(line)
             value == lineValue(line)
         IN  IF line = "" \/ startsWith(line, "#")
             THEN parsedFrom(lines, i + 1, hosts, currentHost)
             ELSE IF toLowerCase(key) = "host"
             THEN parsedFrom(lines, i + 1, commitHost(hosts, currentHost), [host |-> value])
             ELSE IF currentHost # NoHost /\ key # "" /\ value # ""
             THEN parsedFrom(lines, i + 1, hosts, setProperty(currentHost, key, value))
             ELSE parsedFrom(lines, i + 1, hosts, currentHost)

\* The registries of the root file read as one text with its includes inlined.
InlinedRegistries ==
    IF resolveFile(fs, RootPath) = "" THEN {NoHosts}
    ELSE {parsedFrom(text, 1, NoHosts, NoHost) :
             text \in inlinedLines(split(fs[RootPath], "\n"), 1, RootPath, 1)}

\* C26: once loading is over the registry is the one that parsing the root file
\* with every Include line replaced by the content of its targets gives.
C26_IncludeAsInlined ==
    (phase = "serving" /\ req = NoReq) => sshHosts \in InlinedRegistries

\* The loading of an inventory with includes is over.
IncludesLoaded ==
    /\ phase = "serving"
    /\ req = NoReq
    /\ \E d \in Range(declared) : d[1] # RootPath

\* A command or a script has been dispatched.
ExecDispatched ==
    /\ req # NoReq
    /\ req.tool \in {"ssh_execute_command", "ssh_execute_script"}
    /\ child # NoChild

\* C27: for a command or a script, once the timer has fired SIGTERM has been sent
\* and the outcome is the timeout failure, whatever event follows; once the timer
\* has been cancelled no SIGTERM is sent; when the process has closed or failed
\* there is an outcome; and an outcome, once there, is never replaced.
C27_OneOutcome ==
    /\ []((ExecDispatched /\ child.timer = "fired")
             => /\ child.signal = "SIGTERM"
                /\ outcome.kind = "rejected"
                /\ includes(outcome.error, " timed out after "))
    /\ []((ExecDispatched /\ child.timer = "cleared") => child.signal = "none")
    /\ []((ExecDispatched /\ child.state # "running") => outcome.kind \in {"resolved", "rejected"})
    /\ []((ExecDispatched /\ child.state = "running" /\ child.timer = "armed")
             => outcome.kind = "pending")
    /\ [][(ExecDispatched /\ outcome.kind \in {"resolved", "rejected"})
             => (outcome' = outcome \/ req' = NoReq)]_vars

\* C27 witness: the timer of a command fired, the process closed afterwards, and
\* the outcome is the timeout failure.
C27_Witness ==
    /\ ExecDispatched
    /\ req.tool = "ssh_execute_command"
    /\ child.timer = "fired"
    /\ child.signal = "SIGTERM"
    /\ child.state = "closed"
    /\ outcome.kind = "rejected"
    /\ outcome.error = "Command timed out after 5 seconds"

\* The process of a script closed first and its timer was cancelled.
TimerCancelledReached ==
    /\ ExecDispatched
    /\ req.tool = "ssh_execute_script"
    /\ child.timer = "cleared"
    /\ child.signal = "none"
    /\ outcome.kind = "resolved"

\* C28: on the script-file path, whenever the apply step runs and fails, the exit
\* code the command ends with makes the success flag of the result false.
C28_FailedEditReported ==
    ScriptFilePath =>
        LET steps == shellList(child.command)
            n == Len(steps)
        IN  \A fails \in SUBSET (1..n) :
                (IsApplyStep(steps[n - 1]) /\ shellRuns(steps, fails, n - 1) /\ (n - 1) \in fails)
                    => ~success(req.tool, req.args, shellExitCode(steps, fails), "", "")

\* On the script-file path a failing decode step skips the apply step, and the
\* command still ends with exit code 0.
DecodeFailureSkipsApply ==
    /\ ScriptFilePath
    /\ LET steps == shellList(child.command)
           n == Len(steps)
       IN  /\ ~shellRuns(steps, {n - 2}, n - 1)
           /\ shellExitCode(steps, {n - 2}) = "0"

\* The files of the calls of parseSSHConfig that have not returned, outermost first.
filesBeingParsed == [k \in 1..Len(stack) |-> resolveFile(fs, stack[k].basePath)]

\* C29: loading terminates for every finite inventory, cycles of Include
\* directives included. A call of parseSSHConfig reads a fixed text, so a file
\* whose parse is entered again before it has returned is entered again without
\* end: a load that terminates never parses a file inside its own parse.
C29_LoadingTerminates ==
    \A j, k \in 1..Len(stack) :
        (j < k) => filesBeingParsed[j] # filesBeingParsed[k]

\* The inventories of the server's own runs are loaded to the end.
AcyclicLoadEnds ==
    (fs \in FileSystems /\ phase = "serving") => stack = <<>>

AcyclicLoaded == fs \in FileSystems /\ fs # NoFiles /\ phase = "serving"

\* A request to run a command or a script is being handled, and its host fails
\* validateHostAccess.
HostRefused ==
    /\ req # NoReq
    /\ req.tool \in {"ssh_execute_command", "ssh_execute_script"}
    /\ ~validateHostAccess(req.host).ok

\* The command policy rejects the command of the request, or a line of its script.
CommandRefused ==
    IF req.tool = "ssh_execute_command" THEN ~isCommandAllowed(req.args.command).allowed
    ELSE \E i \in DOMAIN scriptLines(req.args.script) :
             ~isCommandAllowed(scriptLines(req.args.script)[i]).allowed

\* C30: for execute-command and execute-script, host validation runs before the
\* command policy: a request whose host fails validation is rejected with the
\* host error (not found, or not allowed), whatever its command, and the command
\* policy is not evaluated for it.
C30_HostErrorFirst ==
    HostRefused =>
        /\ outcome = [kind |-> "rejected", error |-> validateHostAccess(req.host).error]
        /\ req.evaluated = <<>>
        /\ child = NoChild

\* A command the policy rejects, sent to a host the access policy does not allow.
C30_Witness ==
    /\ HostRefused
    /\ req.tool = "ssh_execute_command"
    /\ CommandRefused
    /\ ~isHostAllowed(req.host)
    /\ outcome.kind = "rejected"

\* A script with a line the policy rejects, sent to a host that is not in the
\* registry.
RefusedScriptToUnknownHost ==
    /\ HostRefused
    /\ req.tool = "ssh_execute_script"
    /\ CommandRefused
    /\ isHostAllowed(req.host)
    /\ outcome.kind = "rejected"

====
